---- MODULE Spec2Model ----
(***************************************************************************)
(* Model of the agent turn orchestrator of the Knowledge IDE backend       *)
(* (backend/app/api/chat.py and the services it calls).                    *)
(*                                                                         *)
(* A turn is one invocation of chat_completion.  The handler runs on an    *)
(* asyncio event loop: code between two awaits is atomic, and every await  *)
(* is a point where another handler (another turn, a cancel request) may   *)
(* run.  Each action below is the code between two such points.  The       *)
(* record store and the broadcast sink are taken to answer every call;     *)
(* the model completion client and the tools may fail.                     *)
(***************************************************************************)
EXTENDS Integers, Sequences, FiniteSets, TLC

\* ---------------------------------------------------------------- bounds
NumTurns == 2        \* invocations of chat_completion
NumSessions == 2     \* session ids callers use (the first is the empty string)
NumTaskIds == 1      \* task ids callers supply
MaxCalls == 2        \* tool calls in one model response
MaxCancels == 1      \* invocations of cancel_task
MaxHistory == 7      \* stored messages of a session handed to compaction
MaxTextLen == 9      \* characters of a text handed to estimate_tokens
MaxHits == 2         \* hits one vector_store.search returns
MaxUpdates == 1      \* requests to the session endpoints
StoredTurns == 4     \* completed turns of a session with a stored history
LongTurns == 29      \* completed turns of a session with a long history

\* ---------------------------------------------------------------- values
None == "None"       \* Python's None

SessionNames == <<"", "s1", "s2", "s3">>
SuppliedNames == <<"t1", "t2", "t3">>
UuidNames == <<"u1", "u2", "u3", "u4">>

Turns == 1..NumTurns
\* ChatRequest.session_id is any str, the empty string included.
Sessions == {SessionNames[k] : k \in 1..NumSessions}
\* ChatRequest.task_id, when the caller supplies one.
SuppliedTaskIds == {SuppliedNames[k] : k \in 1..NumTaskIds}
\* str(uuid.uuid4()) of invocation i: fresh, never equal to another id.
Uuid(i) == UuidNames[i]
TaskIds == SuppliedTaskIds \cup {Uuid(i) : i \in Turns}

\* Python truthiness of an Optional[str]: None and "" are falsy.
Truthy(x) == x # None /\ x # ""
\* Python's `a or b`.
PyOr(a, b) == IF Truthy(a) THEN a ELSE b

Files == {"f_md", "f_pdf"}
NoFile == "no_file"
FileTypeOf(f) == IF f = "f_md" THEN "md" ELSE "pdf"

\* ------------------------------------------------- tool execution pipeline
\* Tools registered by initialize_tools, one of each kind of schema.
ToolNames == {"read_document", "update_file", "read_visible_pdf_context"}
UnknownTool == "no_such_tool"

\* BaseTool.required_permission of each registered tool.
RequiredPermission(tool) ==
    CASE tool = "read_document" -> "read"
      [] tool = "update_file" -> "write"
      [] OTHER -> None

\* No tool is restricted to writable file types.
WritableOnly_Never(tool) == FALSE

\* BaseTool.writable_only of each registered tool.
WritableOnly(tool) == tool = "update_file"

\* parameters_schema["required"] is non-empty.
HasRequired(tool) == tool \in {"read_document", "update_file"}

\* parameters_schema["properties"] is non-empty.
HasProperties(tool) == tool \in {"read_document", "update_file"}

\* PermissionMiddleware.WRITABLE_TYPES
WRITABLE_TYPES == {"md", "txt"}

\* The JSON text a model puts in function.arguments:
\*   object       an object holding every required field with the right type
\*   wrong_type   an object holding every required field, one with a wrong type
\*   empty_object {}
\*   undecodable  text json.loads rejects
\*   null, array  JSON that decodes to a value that is no object
RawArguments == {"object", "wrong_type", "empty_object", "undecodable", "null", "array"}

\* A tool call of a model response; file_id is the file_id field of an
\* object (NoFile when the arguments name none).
ToolCall(name, arguments, file_id) ==
    [name |-> name, arguments |-> arguments, file_id |-> file_id]

\* chat.py lines 461-465: arguments given as a string are decoded; a decode
\* failure degrades to empty arguments.
JsonLoads(raw) == IF raw = "undecodable" THEN "empty_object" ELSE raw

\* The values execute can be handed as arguments.
DecodedArguments == {JsonLoads(raw) : raw \in RawArguments}

\* BaseTool.validate_arguments: "ok", "ToolValidationError", or "TypeError"
\* for an exception that is not a ToolValidationError (membership test or
\* .items() on a value that is no dict).
ValidateArguments(tool, arguments, file_id) ==
    CASE arguments = "null" -> "TypeError"
      [] arguments = "array" ->
            IF HasRequired(tool) THEN "ToolValidationError" ELSE "TypeError"
      [] arguments = "empty_object" ->
            IF HasRequired(tool) THEN "ToolValidationError" ELSE "ok"
      [] arguments = "wrong_type" ->
            IF HasProperties(tool) THEN "ToolValidationError" ELSE "ok"
      [] OTHER ->
            IF HasRequired(tool) /\ file_id = NoFile
            THEN "ToolValidationError" ELSE "ok"

\* An absent entry that hides the file.
ResolveLevel_AbsentHides(permissions, file_id) ==
    IF permissions[file_id] = "absent" THEN "none" ELSE permissions[file_id]

\* context.permissions.get(file_id, PermissionLevel.READ)
ResolveLevel(permissions, file_id) ==
    IF permissions[file_id] = "absent" THEN "read" ELSE permissions[file_id]

\* PermissionMiddleware.check_permission on validated (dict) arguments.
CheckPermission(tool, file_id, permissions) ==
    IF file_id = NoFile THEN "ok"
    ELSE LET permission == ResolveLevel(permissions, file_id)
             required == RequiredPermission(tool)
         IN  IF permission = "none" THEN "ToolPermissionError"
             ELSE IF required = "read" THEN
                    IF permission \notin {"read", "write"}
                    THEN "ToolPermissionError" ELSE "ok"
             ELSE IF required = "write" THEN
                    IF permission # "write" THEN "ToolPermissionError"
                    ELSE IF WritableOnly(tool) /\ FileTypeOf(file_id) \notin WRITABLE_TYPES
                         THEN "ToolPermissionError" ELSE "ok"
             ELSE "ok"

\* check_permission lines 118-129: the target file of the arguments, the
\* file_id field or else the only element of the file_ids field; NoFile
\* when there is neither.
TargetFile(file_id, file_ids) ==
    IF file_id # NoFile THEN file_id
    ELSE IF Len(file_ids) = 1 THEN file_ids[1] ELSE NoFile

\* PermissionMiddleware.check_permission on the arguments of a call.
check_permission(tool, file_id, file_ids, permissions) ==
    CheckPermission(tool, TargetFile(file_id, file_ids), permissions)

\* What the tool body does once it runs: returns a success, returns a
\* failure of its own, or throws.
BodyOutcomes == {"success", "failure", "raises"}

Result(raised, success, error_code, body_ran) ==
    [raised |-> raised, success |-> success, error_code |-> error_code,
     body_ran |-> body_ran]

\* ToolExecutor.execute on decoded arguments.  raised = TRUE: an exception
\* leaves execute.
Execute(call, permissions, body) ==
        IF call.name \notin ToolNames
        THEN Result(FALSE, FALSE, "TOOL_NOT_FOUND", FALSE)
        ELSE LET v == ValidateArguments(call.name, call.arguments, call.file_id)
             IN  IF v = "ToolValidationError"
                 THEN Result(FALSE, FALSE, "VALIDATION_ERROR", FALSE)
                 ELSE IF v = "TypeError"
                 THEN Result(TRUE, FALSE, "TypeError", FALSE)
                 ELSE IF CheckPermission(call.name, call.file_id, permissions)
                         = "ToolPermissionError"
                 THEN Result(FALSE, FALSE, "PERMISSION_DENIED", FALSE)
                 ELSE CASE body = "success" -> Result(FALSE, TRUE, None, TRUE)
                        [] body = "failure" -> Result(FALSE, FALSE, "TOOL_FAILURE", TRUE)
                        [] OTHER -> Result(FALSE, FALSE, "EXECUTION_ERROR", TRUE)

\* ------------------------------------------------------------------ state
VARIABLES
    running_task_by_session,  \* chat.py _running_task_by_session
    task_to_session,          \* chat.py _task_to_session
    cancelled_tasks,          \* chat.py _cancelled_tasks
    turn,                     \* per invocation of chat_completion: its locals
    chat_messages,            \* committed ChatMessage rows (user/assistant), per session
    task_state,               \* the rows of table session_task_state
    cancel_count,             \* invocations of cancel_task so far
    last_cancel,              \* what the latest cancel_task did
    exec_in,                  \* ToolExecutor.execute applied on its own: input
    exec_out,                 \*   and result
    upserted,                 \* upsert_task_state applied on its own: the latest
                              \*   arguments, per session
    compactions,              \* the rows of table conversation_compactions
    compact_in,               \* maybe_compact_history applied on its own: input
    compact_out,              \*   and result
    session_rows,             \* the rows of table sessions: the permissions map
    session_cache,            \* PermissionMiddleware._session_cache
    event_rows,               \* committed ChatMessage rows of role task_event
    perm_req,                 \* requests to the session endpoints in flight
    est_in,                   \* the token estimates applied on their own: input
    est_out,                  \*   and result
    auth_in,                  \* check_permission applied on its own: input
    auth_out,                 \*   and result
    retr_in,                  \* retrieve_context_blocks applied on its own: input
    retr_out                  \*   and result

vars == <<running_task_by_session, task_to_session, cancelled_tasks, turn,
          chat_messages, task_state, cancel_count, last_cancel, exec_in, exec_out,
          upserted, compactions, compact_in, compact_out, session_rows,
          session_cache, event_rows, perm_req, est_in, est_out, auth_in, auth_out,
          retr_in, retr_out>>

registry_vars == <<running_task_by_session, task_to_session, cancelled_tasks>>
store_vars == <<chat_messages, task_state>>
row_vars == <<event_rows, perm_req>>
cancel_vars == <<cancel_count, last_cancel>>
exec_vars == <<exec_in, exec_out>>
compact_vars == <<compactions, compact_in, compact_out>>
perm_vars == <<session_rows, session_cache>>
est_vars == <<est_in, est_out>>
auth_vars == <<auth_in, auth_out>>
retr_vars == <<retr_in, retr_out>>
\* What the steps of a turn and of cancel_task leave alone.
unit_vars == <<exec_vars, upserted, compact_vars, est_vars, auth_vars, retr_vars>>
\* What cancel_task and the steps of a turn before its commit leave alone.
quiet_vars == <<event_rows, perm_req, unit_vars>>
\* What a function applied on its own leaves alone.
handler_vars == <<registry_vars, turn, store_vars, cancel_vars, perm_vars, row_vars>>

PermissionMaps == [Files -> {"read", "write", "none", "absent"}]

\* Session.permissions as stored: a JSON map of file ids to strings, among
\* them strings that are no permission level.
StoredLevels == {"read", "write", "none", "invalid", "absent"}
EmptyMap == [f \in Files |-> "absent"]

\* A row of table sessions, and no row.
SessionRow(permissions) == [exists |-> TRUE, permissions |-> permissions]
NoRow == [exists |-> FALSE, permissions |-> EmptyMap]

\* An entry of _session_cache, and no entry.
CacheEntry(permissions) == [cached |-> TRUE, permissions |-> permissions]
NoEntry == [cached |-> FALSE, permissions |-> EmptyMap]

\* Characters of a stored message and of the message of a short request.
MessageLen == 20

\* ChatRequest: permissions (override: it is not None), context_files,
\* compact_mode and the length of message.
RequestOf(override, permissions, context_files, compact_mode, message_len) ==
    [override |-> override, permissions |-> permissions,
     context_files |-> context_files, compact_mode |-> compact_mode,
     message_len |-> message_len]

\* A request with a message of MessageLen characters.
Request(override, permissions, context_files, compact_mode) ==
    RequestOf(override, permissions, context_files, compact_mode, MessageLen)
NoRequest == Request(FALSE, EmptyMap, {}, "auto")

\* Requests to the session endpoints (update_session_permissions,
\* bulk_update_permissions, delete_session), and no request.  permissions:
\* the map the handler commits.
Updates == 1..MaxUpdates
NoUpdate ==
    [pc |-> "idle", kind |-> None, session_id |-> None, permissions |-> EmptyMap,
     status |-> 0]

\* The requests to the session endpoints that have returned.
CompletedUpdates == {u \in Updates : perm_req[u].pc = "done"}

\* Keys the data of every success response of chat_completion carries.
Envelope ==
    {"message_id", "content", "tool_calls", "tool_results", "citations",
     "task_id", "task_state", "compact_meta"}

\* Keys of the data of a completed turn (lines 621-636), of a cancelled turn
\* (lines 680-695) and of the body of an HTTPException.
CompletedKeys == Envelope \cup {"role", "timestamp", "usage", "model"}
CancelledKeys == Envelope \cup {"role", "timestamp", "cancelled"}
ErrorKeys == {"detail"}

\* keys: the keys of the response body (of data, for a success response).
NoResponse ==
    [status |-> 0, keys |-> {}, message_id |-> None, content |-> <<>>,
     cancelled |-> FALSE, tool_results |-> <<>>, citations |-> {},
     detail |-> None]

\* A row of table conversation_compactions: none.
NoRecord == [id |-> None, session_id |-> None, sequence |-> 0, trigger_reason |-> None,
             before_tokens |-> 0, after_tokens |-> 0, message_count |-> 0]

\* The locals of an invocation that has not started.
IdleTurn ==
    [pc |-> "idle", session_id |-> None, task_id |-> None, use_tools |-> FALSE,
     permissions |-> EmptyMap, request |-> NoRequest,
     session_permissions |-> EmptyMap, visible_file_ids |-> {},
     permitted_files |-> {}, loaded |-> EmptyMap, cache_write |-> FALSE,
     readable_files |-> <<>>,
     citations |-> {}, context_parts |-> <<>>,
     after_updates |-> {}, compaction |-> NoRecord,
     tool_calls |-> <<>>, idx |-> 0, tool_results |-> <<>>, final_content |-> <<>>,
     model_calls |-> 0, followup_calls |-> 0, followup |-> "none",
     exec_calls |-> 0, bodies_run |-> 0,
     events |-> <<>>, outcome |-> "none", error |-> None, response |-> NoResponse,
     cancel_at |-> "never", calls_after_cancel |-> 0]

\* A turn between the registry check and the exit of its handler.
Active(i) == turn[i].pc \notin {"idle", "rejected", "exited"}

\* Positions before the turn's final checkpoint (chat.py line 575).
BeforeFinalCheckpoint ==
    {"started", "planning", "perm_select", "ctx_ready", "model_call", "tool_check", "tool_exec",
     "followup_check", "followup_call", "final_check"}

\* _is_task_cancelled
is_task_cancelled(task_id) == task_id \in cancelled_tasks

Event(event_type, progress) == [event_type |-> event_type, progress |-> progress]

MessageId(i, role) == <<i, role>>

Max(a, b) == IF a >= b THEN a ELSE b
Min(a, b) == IF a <= b THEN a ELSE b

\* chat.py: blocked_reason=short_text(str(e), 600)
BlockedReasonLimit == 600

\* ------------------------------------------------------- token estimates
\* A message, its content given by its length in characters.
Msg(role, len) == [role |-> role, len |-> len]

\* len(role)
RoleLen(role) ==
    CASE role = "system" -> 6
      [] role = "user" -> 4
      [] role = "assistant" -> 9
      [] OTHER -> 10

\* An estimate that divides the wrong way round.
estimate_tokens_Inverse(len) == IF len = 0 THEN 0 ELSE Max(1, 4 \div len)

\* token_budget_service.estimate_tokens, on the length of the text.
estimate_tokens(len) == IF len = 0 THEN 0 ELSE Max(1, len \div 4)

\* token_budget_service.estimate_messages_tokens
RECURSIVE estimate_messages_tokens(_)
estimate_messages_tokens(messages) ==
    IF messages = <<>> THEN 0
    ELSE estimate_tokens(RoleLen(Head(messages).role))
         + estimate_tokens(Head(messages).len)
         + estimate_messages_tokens(Tail(messages))

\* ----------------------------------------------- retrieve_context_blocks
\* config.py: settings.DOC_CONTEXT_BUDGET_TOKENS
DOC_CONTEXT_BUDGET_TOKENS == 18000

\* A candidate block: its key, the length of its content, its score in
\* thousandths.
Candidate(file_id, page, chunk_index, len, score) ==
    [file_id |-> file_id, page |-> page, chunk_index |-> chunk_index,
     len |-> len, score |-> score]

\* Line 201: the key candidates are deduplicated by.
KeyOf(item) == <<item.file_id, item.page, item.chunk_index>>

\* active_page: None
NoPage == -1

\* A hit of vector_store.search: the file_id, page and chunk_index of its
\* metadata, the length of its document, its distance.
Hit(file_id, page, chunk_index, len, distance) ==
    [file_id |-> file_id, page |-> page, chunk_index |-> chunk_index,
     len |-> len, distance |-> distance]

\* Lines 142-151: 1.0 / (1.0 + distance), raised for the active file and
\* again for its active page; in thousandths.
SemanticScore(hit, active_file_id, active_page) ==
    (1000 \div (1 + hit.distance))
    + (IF Truthy(active_file_id) /\ hit.file_id = active_file_id THEN 200 ELSE 0)
    + (IF /\ Truthy(active_file_id) /\ active_page # NoPage
          /\ hit.file_id = active_file_id /\ hit.page = active_page
       THEN 400 ELSE 0)

RECURSIVE SemanticOfFile(_, _, _, _)
SemanticOfFile(file_id, hits, active_file_id, active_page) ==
    IF hits = <<>> THEN <<>>
    ELSE <<Candidate(PyOr(Head(hits).file_id, file_id), Head(hits).page,
                     Head(hits).chunk_index, Head(hits).len,
                     SemanticScore(Head(hits), active_file_id, active_page))>>
         \o SemanticOfFile(file_id, Tail(hits), active_file_id, active_page)

\* vector_store.search lines 69-79: the search is filtered by file_id when
\* file_id is truthy, else it ranges over the whole collection.
SearchFilter(file_id, indexed) == IF Truthy(file_id) THEN {file_id} ELSE indexed

\* Lines 127-163: the candidates of the semantic search and whether it
\* failed.  searches[k] is what vector_store.search does for the k-th
\* readable file: it raises, or returns hits.  An exception ends the loop;
\* the candidates gathered before it stay.
RECURSIVE SemanticSearch(_, _, _, _, _)
SemanticSearch(readable_files, searches, k, active_file_id, active_page) ==
    IF k > Len(readable_files)
    THEN [candidates |-> <<>>, failed |-> FALSE]
    ELSE IF searches[k].raises
    THEN [candidates |-> <<>>, failed |-> TRUE]
    ELSE LET rest == SemanticSearch(readable_files, searches, k + 1,
                                    active_file_id, active_page)
         IN  [candidates |->
                 SemanticOfFile(readable_files[k], searches[k].hits,
                                active_file_id, active_page) \o rest.candidates,
              failed |-> rest.failed]

\* The DocumentChunk rows of the indexed files, in the order of
\* (page, chunk_index); tokens are the words of the content.
Chunk(page, chunk_index, len, tokens) ==
    [page |-> page, chunk_index |-> chunk_index, len |-> len, tokens |-> tokens]

\* retrieval_service._lexical_score: the query tokens found in the content.
RECURSIVE lexical_score(_, _)
lexical_score(query_tokens, content_tokens) ==
    IF query_tokens = <<>> \/ content_tokens = {} THEN 0
    ELSE (IF Head(query_tokens) \in content_tokens THEN 1 ELSE 0)
         + lexical_score(Tail(query_tokens), content_tokens)

\* Lines 175-197: the candidates of one file's stored chunks.
RECURSIVE LexicalOfFile(_, _, _, _, _)
LexicalOfFile(file_id, chunks, query_tokens, active_file_id, active_page) ==
    IF chunks = <<>> THEN <<>>
    ELSE LET chunk == Head(chunks)
             score == lexical_score(query_tokens, chunk.tokens)
             boosted ==
                 score * 1000
                 + (IF Truthy(active_file_id) /\ file_id = active_file_id
                    THEN 1000 ELSE 0)
                 + (IF /\ Truthy(active_file_id) /\ active_page # NoPage
                       /\ file_id = active_file_id /\ chunk.page = active_page
                    THEN 2000 ELSE 0)
             rest == LexicalOfFile(file_id, Tail(chunks), query_tokens,
                                   active_file_id, active_page)
         IN  IF score <= 0 THEN rest
             ELSE <<Candidate(file_id, chunk.page, chunk.chunk_index, chunk.len,
                              boosted)>> \o rest

\* Lines 167-197: lexical scoring over the stored chunks of the readable
\* files.
RECURSIVE LexicalSearch(_, _, _, _, _)
LexicalSearch(readable_files, stored, query_tokens, active_file_id, active_page) ==
    IF readable_files = <<>> THEN <<>>
    ELSE LexicalOfFile(Head(readable_files), stored[Head(readable_files)],
                       query_tokens, active_file_id, active_page)
         \o LexicalSearch(Tail(readable_files), stored, query_tokens,
                          active_file_id, active_page)

\* The position of a key in a list of candidates, 0 when it is not there.
IndexOfKey(uniq, key) ==
    IF \E k \in 1..Len(uniq) : KeyOf(uniq[k]) = key
    THEN CHOOSE k \in 1..Len(uniq) : KeyOf(uniq[k]) = key
    ELSE 0

\* A deduplication in which the later candidate of a key wins.
RECURSIVE Dedup_LastWins(_, _)
Dedup_LastWins(candidates, uniq) ==
    IF candidates = <<>> THEN uniq
    ELSE LET item == Head(candidates)
             k == IndexOfKey(uniq, KeyOf(item))
         IN  Dedup_LastWins(Tail(candidates),
                 IF k = 0 THEN Append(uniq, item) ELSE [uniq EXCEPT ![k] = item])

\* Lines 199-204: one candidate per key, a later one replacing an earlier
\* one only with a higher score; uniq keeps the order of first appearance.
RECURSIVE Dedup(_, _)
Dedup(candidates, uniq) ==
    IF candidates = <<>> THEN uniq
    ELSE LET item == Head(candidates)
             k == IndexOfKey(uniq, KeyOf(item))
         IN  Dedup(Tail(candidates),
                 IF k = 0 THEN Append(uniq, item)
                 ELSE IF item.score > uniq[k].score THEN [uniq EXCEPT ![k] = item]
                 ELSE uniq)

\* sorted(..., key=score, reverse=True): descending, equal scores in their
\* given order.
RECURSIVE InsertRanked(_, _)
InsertRanked(item, ranked) ==
    IF ranked = <<>> THEN <<item>>
    ELSE IF Head(ranked).score >= item.score
    THEN <<Head(ranked)>> \o InsertRanked(item, Tail(ranked))
    ELSE <<item>> \o ranked

RECURSIVE Ranked(_, _)
Ranked(items, ranked) ==
    IF items = <<>> THEN ranked
    ELSE Ranked(Tail(items), InsertRanked(Head(items), ranked))

\* A walk that ends at the first block over the budget.
RECURSIVE BudgetWalk_Stops(_, _)
BudgetWalk_Stops(ranked, used_tokens) ==
    IF ranked = <<>> THEN <<>>
    ELSE LET block_tokens == estimate_tokens(Head(ranked).len)
         IN  IF used_tokens + block_tokens > DOC_CONTEXT_BUDGET_TOKENS
             THEN <<>>
             ELSE <<Head(ranked)>>
                  \o BudgetWalk_Stops(Tail(ranked), used_tokens + block_tokens)

\* Lines 213-237: the blocks accepted within the budget.
RECURSIVE BudgetWalk(_, _)
BudgetWalk(ranked, used_tokens) ==
    IF ranked = <<>> THEN <<>>
    ELSE LET block_tokens == estimate_tokens(Head(ranked).len)
         IN  IF used_tokens + block_tokens > DOC_CONTEXT_BUDGET_TOKENS
             THEN BudgetWalk(Tail(ranked), used_tokens)
             ELSE <<Head(ranked)>>
                  \o BudgetWalk(Tail(ranked), used_tokens + block_tokens)

RECURSIVE BlockTokens(_)
BlockTokens(items) ==
    IF items = <<>> THEN 0
    ELSE estimate_tokens(Head(items).len) + BlockTokens(Tail(items))

\* retrieval_service.retrieve_context_blocks.  embedding_raises: get_embedding
\* throws; stored: the DocumentChunk rows per file.  The result holds the
\* accepted blocks (context_parts, citations and retrieval_refs are built
\* from the same blocks), semantic_failed and used_tokens, and for reference
\* the candidates, the ranked list and whether the lexical scoring ran.
retrieve_context_blocks(readable_files, embedding_raises, searches, stored, query_tokens, active_file_id, active_page) ==
    IF readable_files = <<>>
    THEN [accepted |-> <<>>, semantic_failed |-> FALSE, used_tokens |-> 0,
          candidates |-> <<>>, ranked |-> <<>>, lexical |-> FALSE]
    ELSE LET semantic ==
                 IF embedding_raises THEN [candidates |-> <<>>, failed |-> TRUE]
                 ELSE SemanticSearch(readable_files, searches, 1,
                                     active_file_id, active_page)
             lexical == semantic.candidates = <<>>
             candidates ==
                 IF lexical
                 THEN LexicalSearch(readable_files, stored, query_tokens,
                                    active_file_id, active_page)
                 ELSE semantic.candidates
             ranked == Ranked(Dedup(candidates, <<>>), <<>>)
             accepted == BudgetWalk(ranked, 0)
         IN  [accepted |-> accepted,
              semantic_failed |-> semantic.failed \/ lexical,
              used_tokens |-> BlockTokens(accepted),
              candidates |-> candidates, ranked |-> ranked, lexical |-> lexical]

\* str(e) of an exception the completion client throws: short, or longer
\* than a blocked_reason may be.
ErrorTexts == {"short error", "long error"}

\* str(e) of the TypeError validate_arguments throws.
TypeErrorText == "argument of type 'NoneType' is not iterable"

\* len(text)
TextLen(text) == IF text = "long error" THEN BlockedReasonLimit + 1 ELSE 20

\* token_budget_service.short_text: text[: limit - 3] + "..." for a text
\* longer than limit.
short_text(text, limit) ==
    IF TextLen(text) <= limit THEN text ELSE text \o "..."

\* config.py: settings.TASK_STATE_MACHINE_ENABLED
TASK_STATE_MACHINE_ENABLED == TRUE

\* select(SessionTaskState).where(SessionTaskState.session_id == session_id)
RowsOf(rows, session_id) == {r \in rows : r.session_id = session_id}

\* The row a reader finds for the session (None when there is none).
Row(rows, session_id) ==
    IF RowsOf(rows, session_id) = {} THEN None
    ELSE CHOOSE r \in RowsOf(rows, session_id) : TRUE

\* An upsert that adds a row whatever it finds.
upsert_task_state_AlwaysAdds(rows, session_id, task_id, state, current_step, total_steps, blocked_reason, last_message_id) ==
    rows \cup {[session_id |-> session_id, task_id |-> task_id, state |-> state,
                current_step |-> current_step, total_steps |-> total_steps,
                blocked_reason |-> blocked_reason,
                last_message_id |-> last_message_id]}

\* task_state_service.upsert_task_state: the row selected for the session is
\* overwritten, or a row is added when none is found (scalar_one_or_none
\* raises when it finds several; nothing is stored when the state machine
\* is off).
upsert_task_state(rows, session_id, task_id, state, current_step, total_steps, blocked_reason, last_message_id) ==
    LET found == RowsOf(rows, session_id)
        row == [session_id |-> session_id, task_id |-> task_id, state |-> state,
                current_step |-> current_step, total_steps |-> total_steps,
                blocked_reason |-> blocked_reason,
                last_message_id |-> last_message_id]
    IN  IF ~TASK_STATE_MACHINE_ENABLED \/ Cardinality(found) > 1 THEN rows
        ELSE IF found = {} THEN rows \cup {row}
        ELSE (rows \ found) \cup {row}

TASK_STATES == {"planning", "executing", "blocked", "done"}

\* The task update payload a model may embed in its content: none, or a
\* JSON object with state, current_step and total_steps.
\* numeric: int() accepts both step values.
NoPayload == [state |-> None, numeric |-> TRUE, current_step |-> 0, total_steps |-> 0]

\* A parser that takes the step values as they come.
parse_task_update_Unclamped(payload) ==
    IF payload.state \notin TASK_STATES
    THEN [parsed |-> FALSE, state |-> None, current_step |-> 0, total_steps |-> 0]
    ELSE [parsed |-> TRUE, state |-> payload.state,
          current_step |-> payload.current_step,
          total_steps |-> payload.total_steps]

\* task_state_service.parse_task_update
parse_task_update(payload) ==
    IF payload.state \notin TASK_STATES
    THEN [parsed |-> FALSE, state |-> None, current_step |-> 0, total_steps |-> 0]
    ELSE IF ~payload.numeric
    THEN [parsed |-> TRUE, state |-> payload.state, current_step |-> 0, total_steps |-> 0]
    ELSE LET current_step == Max(0, payload.current_step)
         IN  [parsed |-> TRUE, state |-> payload.state,
              current_step |-> current_step,
              total_steps |-> Max(current_step, payload.total_steps)]

\* The tool progress without the division by the number of calls.
ToolProgress_Unscaled(idx, total_calls) == 55 + (idx + 1) * 25

\* chat.py line 456: 55 + int(((idx + 1) / max(total_calls, 1)) * 25)
ToolProgress(idx, total_calls) == 55 + ((idx + 1) * 25) \div Max(total_calls, 1)

\* The registry check with the comparison inverted.
RegistryConflict_Inverted(session_id, task_id) ==
    LET existing_task_id == running_task_by_session[session_id]
    IN  Truthy(existing_task_id) /\ existing_task_id = task_id

\* The registry check of chat_completion (lines 111-112).
RegistryConflict(session_id, task_id) ==
    LET existing_task_id == running_task_by_session[session_id]
    IN  Truthy(existing_task_id) /\ existing_task_id # task_id

\* A finally block that forgets the session entry.
EndTask_KeepsSession(session_id, task_id) ==
    /\ running_task_by_session' = running_task_by_session
    /\ task_to_session' = [task_to_session EXCEPT ![task_id] = None]
    /\ cancelled_tasks' = cancelled_tasks \ {task_id}

\* The finally block of chat_completion (lines 743-745).
EndTask(session_id, task_id) ==
    /\ running_task_by_session' = [running_task_by_session EXCEPT ![session_id] = None]
    /\ task_to_session' = [task_to_session EXCEPT ![task_id] = None]
    /\ cancelled_tasks' = cancelled_tasks \ {task_id}

\* A checkpoint whose signal is caught as an ordinary exception.
Checkpoint_AsError(i, passed) ==
    IF is_task_cancelled(turn[i].task_id)
    THEN [turn[i] EXCEPT !.pc = "except_error"]
    ELSE passed

\* _assert_task_not_cancelled at a checkpoint of turn i: the locals after a
\* positive check (TaskCancelledError is raised), else the locals given.
Checkpoint(i, passed) ==
    IF is_task_cancelled(turn[i].task_id)
    THEN [turn[i] EXCEPT !.pc = "except_cancel"]
    ELSE passed

\* ------------------------------------------------- maybe_compact_history
\* config.py: settings.COMPACT_TRIGGER_TOKENS, COMPACT_FORCE_TOKENS,
\* COMPACT_TARGET_TOKENS
COMPACT_TRIGGER_TOKENS == 80000
COMPACT_FORCE_TOKENS == 110000
COMPACT_TARGET_TOKENS == 55000

\* compaction_service.py: the conversational messages kept verbatim.
KeepRecent == 6

\* len(short_text(text, limit)), on the length of the text.
ShortLen(len, limit) == IF len <= limit THEN len ELSE (limit - 3) + 3

\* A mode that is not lower-cased.
NormalizedMode_NoLower(compact_mode) ==
    IF compact_mode = None \/ compact_mode = "" THEN "auto" ELSE compact_mode

\* (compact_mode or "auto").lower()
NormalizedMode(compact_mode) ==
    CASE compact_mode = None -> "auto"
      [] compact_mode = "" -> "auto"
      [] compact_mode = "OFF" -> "off"
      [] compact_mode = "Force" -> "force"
      [] OTHER -> compact_mode

\* [msg for msg in history_messages if msg.role in ("user", "assistant")]
Conversational(history_messages) ==
    SelectSeq(history_messages, LAMBDA m : m.role \in {"user", "assistant"})

\* seq[-n:] and seq[:-n] of Python, n > 0.
LastN(seq, n) == IF Len(seq) <= n THEN seq ELSE SubSeq(seq, Len(seq) - n + 1, Len(seq))
ButLastN(seq, n) == IF Len(seq) <= n THEN <<>> ELSE SubSeq(seq, 1, Len(seq) - n)

\* The leading system messages of a list (lines 82-87).
RECURSIVE LeadingSystem(_)
LeadingSystem(messages) ==
    IF messages = <<>> \/ Head(messages).role # "system" THEN <<>>
    ELSE <<Head(messages)>> \o LeadingSystem(Tail(messages))

\* len("\n".join(summary_lines)) for the lines of lines 59-61.
RECURSIVE SummaryLinesLen(_)
SummaryLinesLen(older) ==
    IF older = <<>> THEN 0
    ELSE (IF Head(older).role = "user" THEN 6 ELSE 11)
         + ShortLen(Head(older).len, 300)
         + (IF Len(older) > 1 THEN 1 ELSE 0)
         + SummaryLinesLen(Tail(older))

\* len("\n- ".join(open_loops)) for the open loops of lines 68-71.
RECURSIVE OpenLoopsLen(_)
OpenLoopsLen(user_messages) ==
    IF user_messages = <<>> THEN 0
    ELSE ShortLen(Head(user_messages).len, 180)
         + (IF Len(user_messages) > 1 THEN 3 ELSE 0)
         + OpenLoopsLen(Tail(user_messages))

\* The compaction block of lines 58-97, by its length.
CompactionBlock(older) ==
    LET summary_len == IF older = <<>> THEN 39
                       ELSE 32 + SummaryLinesLen(LastN(older, 30))
        user_messages == SelectSeq(older, LAMBDA m : m.role = "user")
        open_loops_len == IF user_messages = <<>> THEN 0
                          ELSE 16 + OpenLoopsLen(LastN(user_messages, 5))
    IN  Msg("system", 22 + summary_len + open_loops_len)

\* A tail that is shortened down to one message.
RECURSIVE ShrinkTail_ToOne(_, _)
ShrinkTail_ToOne(system_messages, recent_tail) ==
    IF /\ estimate_messages_tokens(system_messages \o recent_tail)
            > Max(1, COMPACT_TARGET_TOKENS)
       /\ Len(recent_tail) > 1
    THEN ShrinkTail_ToOne(system_messages, Tail(recent_tail))
    ELSE system_messages \o recent_tail

\* Lines 111-114: the tail is shortened while the estimate exceeds the
\* target and more than two messages remain.
RECURSIVE ShrinkTail(_, _)
ShrinkTail(system_messages, recent_tail) ==
    IF /\ estimate_messages_tokens(system_messages \o recent_tail)
            > Max(1, COMPACT_TARGET_TOKENS)
       /\ Len(recent_tail) > 2
    THEN ShrinkTail(system_messages, Tail(recent_tail))
    ELSE system_messages \o recent_tail

\* A turn count that never stops a compaction.
TooFewTurns_Never(conversational) == FALSE

\* Line 48: six or fewer conversational messages.
TooFewTurns(conversational) == Len(conversational) <= KeepRecent

\* Line 40: the estimate is under the trigger and the mode is not force.
BelowTrigger(before_tokens, force_mode) ==
    before_tokens < COMPACT_TRIGGER_TOKENS /\ ~force_mode

\* The result of maybe_compact_history; record is the row it adds (NoRecord
\* when it adds none) and meta_keys the keys of compact_meta.
CompactResult(messages, triggered, meta_keys, reason, before_tokens, after_tokens, record) ==
    [messages |-> messages, triggered |-> triggered, meta_keys |-> meta_keys,
     reason |-> reason, before_tokens |-> before_tokens,
     after_tokens |-> after_tokens, record |-> record]

\* compaction_service.maybe_compact_history; enabled is
\* settings.AUTO_COMPACT_ENABLED, rows the compaction records the caller's
\* transaction sees and compaction_id the uuid4 of line 80.
maybe_compact_history(rows, session_id, history_messages, pre_compact_messages, compact_mode, enabled, compaction_id) ==
    LET normalized_mode == NormalizedMode(compact_mode)
        force_mode == normalized_mode = "force"
        before_tokens == estimate_messages_tokens(pre_compact_messages)
        conversational == Conversational(history_messages)
        older == ButLastN(conversational, KeepRecent)
        recent == LastN(conversational, KeepRecent)
        mine == {r \in rows : r.session_id = session_id}
        last_seq == IF mine = {} THEN 0
                    ELSE CHOOSE n \in {r.sequence : r \in mine} :
                            \A r \in mine : r.sequence <= n
        compacted_messages ==
            LeadingSystem(pre_compact_messages) \o <<CompactionBlock(older)>> \o recent
        after_tokens == estimate_messages_tokens(compacted_messages)
        reason == IF before_tokens >= COMPACT_FORCE_TOKENS THEN "force_threshold"
                  ELSE IF force_mode THEN "force_mode" ELSE "trigger_threshold"
        shrink == \/ force_mode
                  \/ before_tokens >= COMPACT_FORCE_TOKENS
                  \/ after_tokens > COMPACT_TARGET_TOKENS
        system_messages == SelectSeq(compacted_messages, LAMBDA m : m.role = "system")
        final_messages == IF shrink THEN ShrinkTail(system_messages, LastN(recent, 4))
                          ELSE compacted_messages
        final_tokens == estimate_messages_tokens(final_messages)
    IN  IF normalized_mode = "off" \/ ~enabled
        THEN CompactResult(pre_compact_messages, FALSE, {"triggered"}, None, 0, 0,
                           NoRecord)
        ELSE IF BelowTrigger(before_tokens, force_mode)
        THEN CompactResult(pre_compact_messages, FALSE, {"triggered", "before_tokens"},
                           None, before_tokens, 0, NoRecord)
        ELSE IF TooFewTurns(conversational)
        THEN CompactResult(pre_compact_messages, FALSE, {"triggered", "before_tokens"},
                           None, before_tokens, 0, NoRecord)
        ELSE CompactResult(final_messages, TRUE,
                 {"triggered", "reason", "before_tokens", "after_tokens", "compaction_id"},
                 reason, before_tokens, final_tokens,
                 [id |-> compaction_id, session_id |-> session_id,
                  sequence |-> last_seq + 1,
                  trigger_reason |-> reason, before_tokens |-> before_tokens,
                  after_tokens |-> final_tokens, message_count |-> Len(older)])

\* chat.py lines 251-255: the messages handed to maybe_compact_history are
\* the system prompt, the conversational history and the request.
BaseMessages(system_len, history_messages, request_len) ==
    <<Msg("system", system_len)>> \o Conversational(history_messages)
        \o <<Msg("user", request_len)>>

\* config.py: settings.AUTO_COMPACT_ENABLED
AUTO_COMPACT_ENABLED == TRUE

\* Characters of the system prompt.
SystemPromptLen == 400

\* str(uuid.uuid4()) of the compaction of invocation i.
CompactionNames == <<"c1", "c2", "c3", "c4">>
CompactionId(i) == CompactionNames[i]

\* ------------------------------------------------- permissions of a turn
\* chat.py lines 187-196: the explicit context files and the files the
\* session map grants read or write, without the files it sets to none.
VisibleFileIds(context_files, session_permissions) ==
    (context_files \cup {f \in Files : session_permissions[f] \in {"read", "write"}})
        \ {f \in Files : session_permissions[f] = "none"}

\* Lines 198-209: the visible ids that name a stored file that is no folder.
PermittedFilesInfo(visible_file_ids) == visible_file_ids \cap Files

\* _load_permissions lines 83-89: the stored strings as permission levels;
\* a string that is no level is skipped.
ParsePermissions(stored) ==
    [f \in Files |-> IF stored[f] \in {"read", "write", "none"} THEN stored[f]
                      ELSE "absent"]

\* PermissionMiddleware.invalidate_cache: the entry of the session is
\* dropped, every entry when the session id is falsy.
invalidate_cache(cache, session_id) ==
    IF Truthy(session_id) THEN [cache EXCEPT ![session_id] = NoEntry]
    ELSE [s \in Sessions |-> NoEntry]

\* Lines 216-218: the files the permission context sets to none.
ExplicitNone(permissions) == {f \in Files : permissions[f] = "none"}

\* list(visible_file_ids) without explicit_none: a set is iterated in any
\* order.
Orderings(S) ==
    {q \in [1..Cardinality(S) -> S] : \A a, b \in 1..Cardinality(S) : q[a] = q[b] => a = b}

\* The document index a turn retrieves from: get_embedding raises or not,
\* and the files that have one chunk each, in the vector store and in table
\* document_chunks.
Index(embedding_raises, indexed) ==
    [embedding_raises |-> embedding_raises, indexed |-> indexed]

FileOrder == <<"f_md", "f_pdf">>

\* vector_store.search for file_id over the index: the chunks of the files
\* the search ranges over.
SearchHits(file_id, indexed) ==
    LET found(f) == f \in SearchFilter(file_id, indexed) \cap indexed
        files == SelectSeq(FileOrder, found)
    IN  [k \in 1..Len(files) |-> Hit(files[k], 1, 0, 40, 0)]

\* Lines 233-243: retrieve_context_blocks over the index, no active
\* viewport; the query shares a word with every chunk.
TurnRetrieval(readable_files, index) ==
    retrieve_context_blocks(
        readable_files, index.embedding_raises,
        [k \in 1..Len(readable_files) |->
            [raises |-> FALSE, hits |-> SearchHits(readable_files[k], index.indexed)]],
        [f \in Files \cup {""} |->
            IF f \in index.indexed THEN <<Chunk(1, 0, 40, {"a"})>> ELSE <<>>],
        <<"a">>, None, NoPage)

\* The file ids the citations of a retrieval name.
CitedFiles(blocks) == {blocks[k].file_id : k \in 1..Len(blocks)}

\* --------------------------------------------------- chat_completion steps
\* Lines 110-116: the registry check rejects the invocation (HTTP 409).
BeginReject(i, session_id, request_task_id) ==
    LET task_id == PyOr(request_task_id, Uuid(i))
    IN  /\ turn[i].pc = "idle"
        /\ RegistryConflict(session_id, task_id)
        /\ turn' = [turn EXCEPT ![i] =
              [@ EXCEPT !.pc = "rejected", !.session_id = session_id,
                        !.task_id = task_id, !.outcome = "conflict",
                        !.response = [NoResponse EXCEPT
                            !.status = 409, !.keys = ErrorKeys,
                            !.detail = running_task_by_session[session_id]]]]
        /\ UNCHANGED <<registry_vars, store_vars, cancel_vars, perm_vars, quiet_vars>>

\* Lines 110-132: the registry check passes and the turn is registered.
BeginRegister(i, session_id, request_task_id, use_tools) ==
    LET task_id == PyOr(request_task_id, Uuid(i))
    IN  /\ turn[i].pc = "idle"
        /\ ~RegistryConflict(session_id, task_id)
        /\ running_task_by_session' =
              [running_task_by_session EXCEPT ![session_id] = task_id]
        /\ task_to_session' = [task_to_session EXCEPT ![task_id] = session_id]
        /\ turn' = [turn EXCEPT ![i] =
              [@ EXCEPT !.pc = "started", !.session_id = session_id,
                        !.task_id = task_id, !.use_tools = use_tools,
                        !.after_updates = CompletedUpdates,
                        !.cancel_at = IF is_task_cancelled(task_id)
                                      THEN "before_first_checkpoint"
                                      ELSE "never"]]
        /\ UNCHANGED <<cancelled_tasks, store_vars, cancel_vars, perm_vars, quiet_vars>>

\* Lines 134-185: load or create the session (a created session takes
\* request.permissions or {}, an existing one takes request.permissions when
\* given; either write is committed and the cache entry dropped), first
\* checkpoint (156), task_started, task state planning.
\* session_permissions is session.permissions of the Session object the
\* turn holds from here on.
LoadSession(i, request) ==
    LET t == turn[i]
        s == t.session_id
        cancelled == is_task_cancelled(t.task_id)
        row == session_rows[s]
        writes == ~row.exists \/ request.override
        permissions == IF writes THEN request.permissions ELSE row.permissions
    IN  /\ t.pc = "started"
        /\ session_rows' = [session_rows EXCEPT ![s] = SessionRow(permissions)]
        /\ session_cache' = IF writes THEN invalidate_cache(session_cache, s)
                            ELSE session_cache
        /\ turn' = [turn EXCEPT ![i] = Checkpoint(i,
              [t EXCEPT !.pc = "planning", !.request = request,
                        !.session_permissions = permissions,
                        !.events = Append(t.events, Event("task_started", 5))])]
        /\ task_state' = IF cancelled THEN task_state
                         ELSE upsert_task_state(task_state, t.session_id, t.task_id,
                                                "planning", 0, 0, None, None)
        /\ UNCHANGED <<registry_vars, chat_messages, cancel_vars, quiet_vars>>

\* Lines 187-214 and _load_permissions up to its select: the visible and
\* the permitted files from the turn's Session object; then the cache entry
\* of the session when there is one, else the session is selected.  The
\* select returns the Session object the turn already holds (the identity
\* map of its AsyncSession, expire_on_commit=False: the attributes loaded at
\* line 136 are kept), or nothing when the row is gone.
PermissionSelect(i) ==
    LET t == turn[i]
        s == t.session_id
        visible_file_ids ==
            VisibleFileIds(t.request.context_files, t.session_permissions)
        hit == session_cache[s].cached
        loaded ==
            IF hit THEN session_cache[s].permissions
            ELSE IF session_rows[s].exists
            THEN ParsePermissions(t.session_permissions)
            ELSE EmptyMap
    IN  /\ t.pc = "planning"
        /\ turn' = [turn EXCEPT ![i] =
              [t EXCEPT !.pc = "perm_select",
                        !.visible_file_ids = visible_file_ids,
                        !.permitted_files = PermittedFilesInfo(visible_file_ids),
                        !.loaded = loaded,
                        !.cache_write = ~hit /\ session_rows[s].exists]]
        /\ UNCHANGED <<registry_vars, store_vars, cancel_vars, perm_vars, quiet_vars>>

\* Lines 244-257: the stored messages of the session, by role and length,
\* and the messages built from them.
\* The ChatMessage rows of a session in the order of their timestamps: the
\* event rows carry the number of messages stored before them, k messages
\* precede the first of `messages`.  The list is merged by halves.
RECURSIVE MergeRows(_, _, _)
MergeRows(messages, events, k) ==
    IF messages = <<>> THEN events
    ELSE IF Len(messages) = 1
    THEN SelectSeq(events, LAMBDA e : e.at <= k) \o messages
             \o SelectSeq(events, LAMBDA e : e.at > k)
    ELSE LET h == Len(messages) \div 2
         IN  MergeRows(SubSeq(messages, 1, h),
                       SelectSeq(events, LAMBDA e : e.at < k + h), k)
             \o MergeRows(SubSeq(messages, h + 1, Len(messages)),
                          SelectSeq(events, LAMBDA e : e.at >= k + h), k + h)

\* chat.py line 248: .limit(200)
HistoryLimit == 200

\* Lines 244-250: the rows of the session ordered by timestamp, at most
\* HistoryLimit of them from the first on.
LoadHistory(messages, events) ==
    LET rows == MergeRows(messages, events, 0)
    IN  SubSeq(rows, 1, Min(Len(rows), HistoryLimit))

HistoryMessages(session_id) ==
    LET rows == LoadHistory(chat_messages[session_id], event_rows[session_id])
    IN  [k \in 1..Len(rows) |-> Msg(rows[k].role, MessageLen)]

\* Lines 259-265: maybe_compact_history of turn i; it sees the compaction
\* records committed so far.
TurnCompaction(i) ==
    LET s == turn[i].session_id
    IN  maybe_compact_history(compactions, s, HistoryMessages(s),
            BaseMessages(SystemPromptLen, HistoryMessages(s), turn[i].request.message_len),
            PyOr(turn[i].request.compact_mode, "auto"), AUTO_COMPACT_ENABLED,
            CompactionId(i))

\* Characters of the manifest block (lines 268-279) of a turn without
\* viewport.
ManifestLen == 600

\* retrieval_service.py line 221: len of "[Document: <uuid>, Page <n>]:\n"
\* and the content of the block.
PartLen(block) == 58 + block.len

RECURSIVE PartsLen(_)
PartsLen(context_parts) ==
    IF context_parts = <<>> THEN 0
    ELSE 2 + PartLen(Head(context_parts)) + PartsLen(Tail(context_parts))

\* Lines 288-292: len(context_payload), the blocks joined by two newlines
\* between the heading (35 characters) and the closing line (68).
ContextPayloadLen(context_parts) == 35 + ManifestLen + PartsLen(context_parts) + 68

\* Lines 295-312: the last retrieval block is dropped while the messages
\* with the context payload are estimated over COMPACT_FORCE_TOKENS and
\* more than one block is left.
RECURSIVE TrimContext(_, _)
TrimContext(messages, context_parts) ==
    IF /\ estimate_messages_tokens(
              Append(messages, Msg("system", ContextPayloadLen(context_parts))))
            > COMPACT_FORCE_TOKENS
       /\ Len(context_parts) > 1
    THEN TrimContext(messages, SubSeq(context_parts, 1, Len(context_parts) - 1))
    ELSE context_parts

\* _load_permissions line 88 and chat.py lines 216-361: the permissions
\* selected are cached; explicit_none, readable_files, retrieval and
\* citations, compaction (its record is added to the turn's transaction),
\* manifest, the guard against context overflow; checkpoint (325),
\* context_ready, task state executing.
ContextReady(i, index) ==
    LET t == turn[i]
        s == t.session_id
        cancelled == is_task_cancelled(t.task_id)
        permissions == t.loaded
        compact_result == TurnCompaction(i)
        compacted == [t EXCEPT !.compaction = compact_result.record]
    IN  /\ t.pc = "perm_select"
        /\ session_cache' = IF t.cache_write
                            THEN [session_cache EXCEPT ![s] = CacheEntry(permissions)]
                            ELSE session_cache
        /\ \E readable_files \in Orderings(t.visible_file_ids \ ExplicitNone(permissions)) :
              turn' = [turn EXCEPT ![i] =
                IF cancelled THEN [compacted EXCEPT !.pc = "except_cancel"]
                ELSE
                [compacted EXCEPT !.pc = "ctx_ready", !.permissions = permissions,
                          !.readable_files = readable_files,
                          !.citations =
                              CitedFiles(TurnRetrieval(readable_files, index).accepted),
                          !.context_parts =
                              TrimContext(compact_result.messages,
                                  TurnRetrieval(readable_files, index).accepted),
                          !.events = Append(t.events, Event("context_ready", 25))]]
        /\ task_state' = IF cancelled THEN task_state
                         ELSE upsert_task_state(task_state, t.session_id, t.task_id,
                                                "executing", 1, 1, None, None)
        /\ UNCHANGED <<registry_vars, chat_messages, cancel_vars, session_rows, quiet_vars>>

\* Lines 363-375: checkpoint (365) and model_call_started; the completion
\* call is then awaited.
StartModelCall(i) ==
    LET t == turn[i]
    IN  /\ t.pc = "ctx_ready"
        /\ turn' = [turn EXCEPT ![i] = Checkpoint(i,
              [t EXCEPT !.pc = "model_call",
                        !.events = Append(t.events, Event("model_call_started", 35))])]
        /\ UNCHANGED <<registry_vars, store_vars, cancel_vars, perm_vars, quiet_vars>>

\* A model or tool call of turn i returns while a cancel for it is recorded.
AfterCancel(t) ==
    IF t.cancel_at # "never" THEN t.calls_after_cancel + 1 ELSE t.calls_after_cancel

\* Lines 377-450: the completion call returns tool_calls and content that
\* may embed a task update; checkpoint (383), model_call_completed, task
\* state from the task update or executing, then the tool loop or the final
\* checkpoint.
ModelReturns(i, tool_calls, payload) ==
    LET t == turn[i]
        cancelled == is_task_cancelled(t.task_id)
        tool_call_count == Len(tool_calls)
        task_update == parse_task_update(payload)
        called == [t EXCEPT !.model_calls = t.model_calls + 1,
                            !.calls_after_cancel = AfterCancel(t),
                            !.tool_calls = tool_calls]
    IN  /\ t.pc = "model_call"
        /\ turn' = [turn EXCEPT ![i] =
              IF cancelled THEN [called EXCEPT !.pc = "except_cancel"]
              ELSE [called EXCEPT
                      !.pc = IF t.use_tools /\ tool_call_count > 0
                             THEN "tool_check" ELSE "final_check",
                      !.idx = 0,
                      !.final_content = <<"initial">>,
                      !.events = Append(t.events, Event("model_call_completed", 55))]]
        /\ task_state' =
              IF cancelled THEN task_state
              ELSE IF task_update.parsed
              THEN upsert_task_state(task_state, t.session_id, t.task_id,
                       task_update.state, task_update.current_step,
                       Max(task_update.total_steps, 2), None, None)
              ELSE upsert_task_state(task_state, t.session_id, t.task_id,
                       "executing", 2, Max(2, tool_call_count + 2), None, None)
        /\ UNCHANGED <<registry_vars, chat_messages, cancel_vars, perm_vars, quiet_vars>>

\* A primary call whose failure is swallowed like that of the follow-up.
ModelFails_Degrades(i, error) ==
    LET t == turn[i]
    IN  /\ t.pc = "model_call"
        /\ turn' = [turn EXCEPT ![i] =
              [t EXCEPT !.pc = "final_check", !.error = error,
                        !.model_calls = t.model_calls + 1,
                        !.calls_after_cancel = AfterCancel(t)]]
        /\ UNCHANGED <<registry_vars, store_vars, cancel_vars, perm_vars, quiet_vars>>

\* Line 377: the completion call throws an exception e, str(e) = error.
ModelFails(i, error) ==
    LET t == turn[i]
    IN  /\ t.pc = "model_call"
        /\ turn' = [turn EXCEPT ![i] =
              [t EXCEPT !.pc = "except_error", !.error = error,
                        !.model_calls = t.model_calls + 1,
                        !.calls_after_cancel = AfterCancel(t)]]
        /\ UNCHANGED <<registry_vars, store_vars, cancel_vars, perm_vars, quiet_vars>>

\* ToolCheck without the tool_started event.
ToolCheck_NoStarted(i) ==
    LET t == turn[i]
    IN  /\ t.pc = "tool_check"
        /\ turn' = [turn EXCEPT ![i] = Checkpoint(i, [t EXCEPT !.pc = "tool_exec"])]
        /\ UNCHANGED <<registry_vars, store_vars, cancel_vars, perm_vars, quiet_vars>>

\* Lines 454-480: checkpoint (455) before tool call idx, tool_started.
ToolCheck(i) ==
    LET t == turn[i]
    IN  /\ t.pc = "tool_check"
        /\ turn' = [turn EXCEPT ![i] = Checkpoint(i,
              [t EXCEPT !.pc = "tool_exec",
                        !.events = Append(t.events,
                            Event("tool_started", ToolProgress(t.idx, Len(t.tool_calls))))])]
        /\ UNCHANGED <<registry_vars, store_vars, cancel_vars, perm_vars, quiet_vars>>

\* Lines 458-534: tool_executor.execute returns for the decoded arguments
\* of the call (or an exception leaves it),
\* the result and its summary fragment are appended, tool_completed, task
\* state executing.
ToolReturns(i, body) ==
    LET t == turn[i]
        total_calls == Len(t.tool_calls)
        call == t.tool_calls[t.idx + 1]
        tool_args == JsonLoads(call.arguments)
        result == Execute(ToolCall(call.name, tool_args, call.file_id),
                          t.permissions, body)
        ran == [t EXCEPT !.exec_calls = t.exec_calls + 1,
                         !.bodies_run = IF result.body_ran THEN t.bodies_run + 1
                                        ELSE t.bodies_run,
                         !.calls_after_cancel = AfterCancel(t)]
    IN  /\ t.pc = "tool_exec"
        /\ turn' = [turn EXCEPT ![i] =
              IF result.raised
              THEN [ran EXCEPT !.pc = "except_error", !.error = TypeErrorText]
              ELSE [ran EXCEPT
                      !.pc = IF t.idx + 1 < total_calls
                             THEN "tool_check" ELSE "followup_check",
                      !.idx = t.idx + 1,
                      !.tool_results = Append(t.tool_results,
                          [tool |-> call.name, success |-> result.success,
                           error_code |-> result.error_code]),
                      !.final_content = Append(t.final_content,
                          IF result.success THEN "tool_ok" ELSE "tool_error"),
                      !.events = Append(t.events,
                          Event("tool_completed", ToolProgress(t.idx, total_calls)))]]
        /\ task_state' = IF result.raised THEN task_state
                         ELSE upsert_task_state(task_state, t.session_id, t.task_id,
                                  "executing",
                                  Min(2 + t.idx + 1, Max(2, total_calls + 2)),
                                  Max(2, total_calls + 2), None, None)
        /\ UNCHANGED <<registry_vars, chat_messages, cancel_vars, perm_vars, quiet_vars>>

\* Lines 536-562: after the loop, if any tool result exists: checkpoint (537),
\* followup_started; the follow-up completion call is then awaited.
FollowupCheck(i) ==
    LET t == turn[i]
    IN  /\ t.pc = "followup_check"
        /\ turn' = [turn EXCEPT ![i] =
              IF t.tool_results = <<>> THEN Checkpoint(i, [t EXCEPT !.pc = "commit"])
              ELSE Checkpoint(i,
                     [t EXCEPT !.pc = "followup_call",
                               !.events = Append(t.events, Event("followup_started", 85))])]
        /\ UNCHANGED <<registry_vars, store_vars, cancel_vars, perm_vars, quiet_vars>>

\* A follow-up call whose failure is not swallowed.
FollowupReturns_Propagates(i, ok) ==
    LET t == turn[i]
        called == [t EXCEPT !.model_calls = t.model_calls + 1,
                            !.followup_calls = t.followup_calls + 1,
                            !.followup = IF ok THEN "returned" ELSE "failed",
                            !.calls_after_cancel = AfterCancel(t),
                            !.final_content = IF ok THEN <<"followup">>
                                              ELSE t.final_content]
    IN  /\ t.pc = "followup_call"
        /\ turn' = [turn EXCEPT ![i] =
              IF ~ok THEN [called EXCEPT !.pc = "except_error", !.error = "short error"]
              ELSE IF is_task_cancelled(t.task_id)
              THEN [called EXCEPT !.pc = "except_cancel"]
              ELSE [called EXCEPT !.pc = "commit"]]
        /\ UNCHANGED <<registry_vars, store_vars, cancel_vars, perm_vars, quiet_vars>>

\* Lines 563-575: the follow-up call returns (its tool calls, if any, are
\* not read) or throws (swallowed); then the final checkpoint (575).
FollowupReturns(i, ok) ==
    LET t == turn[i]
        called == [t EXCEPT !.model_calls = t.model_calls + 1,
                            !.followup_calls = t.followup_calls + 1,
                            !.followup = IF ok THEN "returned" ELSE "failed",
                            !.calls_after_cancel = AfterCancel(t),
                            !.final_content = IF ok THEN <<"followup">>
                                              ELSE t.final_content]
    IN  /\ t.pc = "followup_call"
        /\ turn' = [turn EXCEPT ![i] =
              IF is_task_cancelled(t.task_id)
              THEN [called EXCEPT !.pc = "except_cancel"]
              ELSE [called EXCEPT !.pc = "commit"]]
        /\ UNCHANGED <<registry_vars, store_vars, cancel_vars, perm_vars, quiet_vars>>

\* A final checkpoint that is never passed.
FinalCheck_Stays(i) ==
    /\ turn[i].pc = "final_check"
    /\ UNCHANGED vars

\* Line 575: the final checkpoint of a turn that ran no tool.
FinalCheck(i) ==
    LET t == turn[i]
    IN  /\ t.pc = "final_check"
        /\ turn' = [turn EXCEPT ![i] = Checkpoint(i, [t EXCEPT !.pc = "commit"])]
        /\ UNCHANGED <<registry_vars, store_vars, cancel_vars, perm_vars, quiet_vars>>

Message(i, role, content) ==
    [id |-> MessageId(i, role), role |-> role, content |-> content, turn |-> i]

\* A commit that leaves the user message out.
CommitMessages_NoUser(i, content) ==
    [chat_messages EXCEPT ![turn[i].session_id] =
        @ \o <<Message(i, "assistant", content)>>]

\* db.add(user_message); db.add(<assistant message>); ...; db.commit()
CommitMessages(i, content) ==
    [chat_messages EXCEPT ![turn[i].session_id] =
        @ \o <<Message(i, "user", <<"request">>), Message(i, "assistant", content)>>]

\* _emit_task_event lines 92-105 and the commit of the turn: every event the
\* turn emitted is a ChatMessage row of role task_event.  at: the user and
\* assistant rows of the session stored before the row (the last event is
\* added after the turn's two messages).
RECURSIVE EventRows(_, _, _, _)
EventRows(i, events, k, stored) ==
    IF k > Len(events) THEN <<>>
    ELSE <<[role |-> "task_event", turn |-> i, event_type |-> events[k].event_type,
            at |-> IF k = Len(events) THEN stored + 2 ELSE stored]>>
         \o EventRows(i, events, k + 1, stored)

\* The compaction record of the turn's transaction, committed with it.
CommitCompaction(i) ==
    IF turn[i].compaction = NoRecord THEN compactions
    ELSE compactions \cup {turn[i].compaction}

CommitEvents(i, events) ==
    [event_rows EXCEPT ![turn[i].session_id] =
        @ \o EventRows(i, events, 1, Len(chat_messages[turn[i].session_id]))]

\* Lines 577-637 and the finally block: the turn completes.  Messages and
\* task state done are committed, task_completed is emitted, the cancel flag
\* is discarded, the response is returned and the registry is cleaned.
Complete(i) ==
    LET t == turn[i]
        steps == Max(2, Len(t.tool_results) + 2)
    IN  /\ t.pc = "commit"
        /\ chat_messages' = CommitMessages(i, t.final_content)
        /\ event_rows' = CommitEvents(i, Append(t.events, Event("task_completed", 100)))
        /\ compactions' = CommitCompaction(i)
        /\ task_state' = upsert_task_state(task_state, t.session_id, t.task_id,
                             "done", steps, steps, None, MessageId(i, "assistant"))
        /\ EndTask(t.session_id, t.task_id)
        /\ turn' = [turn EXCEPT ![i] =
              [t EXCEPT !.pc = "exited", !.outcome = "done",
                        !.events = Append(t.events, Event("task_completed", 100)),
                        !.response = [status |-> 200, keys |-> CompletedKeys,
                                      message_id |-> MessageId(i, "assistant"),
                                      content |-> t.final_content,
                                      cancelled |-> FALSE,
                                      tool_results |-> t.tool_results,
                                      citations |-> t.citations,
                                      detail |-> None]]]
        /\ UNCHANGED <<cancel_vars, perm_vars, perm_req, exec_vars, upserted,
                       compact_in, compact_out, est_vars, auth_vars, retr_vars>>

\* Lines 638-695 and the finally block: TaskCancelledError is caught.
CancelHandler(i) ==
    LET t == turn[i]
    IN  /\ t.pc = "except_cancel"
        /\ chat_messages' = CommitMessages(i, <<"Task cancelled by user.">>)
        /\ event_rows' = CommitEvents(i, Append(t.events, Event("task_cancelled", 100)))
        /\ compactions' = CommitCompaction(i)
        /\ task_state' = upsert_task_state(task_state, t.session_id, t.task_id,
                             "blocked", 0, 0, "cancelled_by_user",
                             MessageId(i, "assistant"))
        /\ EndTask(t.session_id, t.task_id)
        /\ turn' = [turn EXCEPT ![i] =
              [t EXCEPT !.pc = "exited", !.outcome = "cancelled",
                        !.events = Append(t.events, Event("task_cancelled", 100)),
                        !.response = [status |-> 200, keys |-> CancelledKeys,
                                      message_id |-> MessageId(i, "assistant"),
                                      content |-> <<"Task cancelled by user.">>,
                                      cancelled |-> TRUE,
                                      tool_results |-> <<>>,
                                      citations |-> {},
                                      detail |-> None]]]
        /\ UNCHANGED <<cancel_vars, perm_vars, perm_req, exec_vars, upserted,
                       compact_in, compact_out, est_vars, auth_vars, retr_vars>>

\* Lines 696-741 and the finally block: any other exception is caught, the
\* failure is persisted and HTTP 500 is raised.
FailHandler(i) ==
    LET t == turn[i]
    IN  /\ t.pc = "except_error"
        /\ chat_messages' = CommitMessages(i, <<"Task failed: " \o t.error>>)
        /\ event_rows' = CommitEvents(i, Append(t.events, Event("task_failed", 100)))
        /\ compactions' = CommitCompaction(i)
        /\ task_state' = upsert_task_state(task_state, t.session_id, t.task_id,
                             "blocked", 0, 0,
                             short_text(t.error, BlockedReasonLimit),
                             MessageId(i, "assistant"))
        /\ EndTask(t.session_id, t.task_id)
        /\ turn' = [turn EXCEPT ![i] =
              [t EXCEPT !.pc = "exited", !.outcome = "failed",
                        !.events = Append(t.events, Event("task_failed", 100)),
                        !.response = [NoResponse EXCEPT
                            !.status = 500, !.keys = ErrorKeys,
                            !.detail = "Failed to get LLM response: " \o t.error]]]
        /\ UNCHANGED <<cancel_vars, perm_vars, perm_req, exec_vars, upserted,
                       compact_in, compact_out, est_vars, auth_vars, retr_vars>>

\* ---------------------------------------------------- session endpoints
\* update_session_permissions lines 861-869, bulk_update_permissions lines
\* 886-896, delete_session lines 912-915: the session is selected; without
\* a row the request ends with HTTP 404.  The map to commit is the row's
\* map with one entry set, or the map of the request.
SelectSession(u, kind, session_id, permissions) ==
    LET row == session_rows[session_id]
    IN  /\ perm_req[u].pc = "idle"
        /\ perm_req' = [perm_req EXCEPT ![u] =
              IF row.exists
              THEN [pc |-> "selected", kind |-> kind, session_id |-> session_id,
                    permissions |-> permissions, status |-> 0]
              ELSE [pc |-> "done", kind |-> kind, session_id |-> session_id,
                    permissions |-> permissions, status |-> 404]]
        /\ UNCHANGED <<registry_vars, turn, store_vars, cancel_vars, perm_vars,
                       event_rows, unit_vars>>

update_session_permissions(u, session_id, file_id, permission) ==
    SelectSession(u, "update", session_id,
                  [session_rows[session_id].permissions EXCEPT ![file_id] = permission])

bulk_update_permissions(u, session_id, permissions) ==
    SelectSession(u, "bulk", session_id, permissions)

delete_session(u, session_id) == SelectSession(u, "delete", session_id, EmptyMap)

\* delete_session lines 917-919: the ChatMessage rows of the session and
\* the session are deleted; the rows of session_task_states and
\* conversation_compactions go with it (ondelete CASCADE, foreign keys on).
CommitDelete(session_id) ==
    /\ session_rows' = [session_rows EXCEPT ![session_id] = NoRow]
    /\ chat_messages' = [chat_messages EXCEPT ![session_id] = <<>>]
    /\ event_rows' = [event_rows EXCEPT ![session_id] = <<>>]
    /\ task_state' = {r \in task_state : r.session_id # session_id}
    /\ compactions' = {r \in compactions : r.session_id # session_id}

\* The commit of a request to a session endpoint (lines 870, 897, 919).
\* An update of a row that is gone by now raises (StaleDataError, HTTP 500).
CommitSession(u) ==
    LET r == perm_req[u]
        stale == r.kind # "delete" /\ ~session_rows[r.session_id].exists
    IN  /\ r.pc = "selected"
        /\ perm_req' = [perm_req EXCEPT ![u] =
              IF stale THEN [r EXCEPT !.pc = "done", !.status = 500]
              ELSE [r EXCEPT !.pc = "committed"]]
        /\ IF r.kind = "delete" THEN CommitDelete(r.session_id)
           ELSE /\ session_rows' =
                      IF stale THEN session_rows
                      ELSE [session_rows EXCEPT ![r.session_id] =
                               SessionRow(r.permissions)]
                /\ UNCHANGED <<store_vars, event_rows, compactions>>
        /\ UNCHANGED <<registry_vars, turn, cancel_vars, session_cache, exec_vars,
                       upserted, compact_in, compact_out, est_vars, auth_vars,
                       retr_vars>>

\* Lines 871, 898, 920: the cache entry of the session is dropped and the
\* request returns.
ReturnSession(u) ==
    LET r == perm_req[u]
    IN  /\ r.pc = "committed"
        /\ session_cache' = invalidate_cache(session_cache, r.session_id)
        /\ perm_req' = [perm_req EXCEPT ![u] = [r EXCEPT !.pc = "done", !.status = 200]]
        /\ UNCHANGED <<registry_vars, turn, store_vars, cancel_vars, session_rows,
                       event_rows, unit_vars>>

\* get_session lines 786-818: the session is selected and, when there is no
\* row, created with permissions {} and committed (a concurrent creation
\* makes the commit fail and the row of the other is selected); the session
\* is returned with success.  The caller may have had an earlier request
\* answered.
get_session(u, session_id) ==
    LET row == session_rows[session_id]
        session == IF row.exists THEN row ELSE SessionRow(EmptyMap)
    IN  /\ perm_req[u].pc \in {"idle", "done"}
        /\ session_rows' = [session_rows EXCEPT ![session_id] = session]
        /\ perm_req' = [perm_req EXCEPT ![u] =
              [pc |-> "done", kind |-> "get", session_id |-> session_id,
               permissions |-> session.permissions, status |-> 200]]
        /\ UNCHANGED <<registry_vars, turn, store_vars, cancel_vars, session_cache,
                       event_rows, unit_vars>>

\* get_session_messages lines 829-851: the latest `limit` ChatMessage rows
\* of the session, of every role, oldest first.
get_session_messages(session_id, limit) ==
    LET rows == MergeRows(chat_messages[session_id], event_rows[session_id], 0)
    IN  SubSeq(rows, Max(1, Len(rows) - limit + 1), Len(rows))

\* -------------------------------------------------------------- cancel_task
NoCancel ==
    [task_id |-> None, fallback |-> None, status |-> 0, session_id |-> None,
     notified |-> None]

\* Lines 748-785.  session_id is the optional fallback of the caller.
cancel_task(task_id, session_id) ==
    LET target_session == PyOr(task_to_session[task_id], session_id)
        found == Truthy(target_session)
    IN  /\ cancel_count < MaxCancels
        /\ cancel_count' = cancel_count + 1
        /\ cancelled_tasks' = IF found THEN cancelled_tasks \cup {task_id}
                              ELSE cancelled_tasks
        /\ last_cancel' =
              IF found
              THEN [task_id |-> task_id, fallback |-> session_id, status |-> 200,
                    session_id |-> target_session, notified |-> target_session]
              ELSE [task_id |-> task_id, fallback |-> session_id, status |-> 404,
                    session_id |-> None, notified |-> None]
        \* Which running turns the request reaches before their final checkpoint.
        /\ turn' = [i \in Turns |->
              IF /\ found
                 /\ turn[i].task_id = task_id
                 /\ turn[i].pc \in BeforeFinalCheckpoint
                 /\ turn[i].cancel_at = "never"
              THEN [turn[i] EXCEPT !.cancel_at =
                        IF turn[i].pc = "started" THEN "before_first_checkpoint"
                        ELSE "running"]
              ELSE turn[i]]
        /\ UNCHANGED <<running_task_by_session, task_to_session, store_vars, perm_vars, quiet_vars>>

\* ---------------------------------------------- ToolExecutor.execute alone
NoExec == [name |-> None, arguments |-> None, file_id |-> None,
           permissions |-> [f \in Files |-> "absent"], body |-> None]

ExecuteOnce(call, permissions, body) ==
    /\ exec_in = NoExec
    /\ exec_in' = [name |-> call.name, arguments |-> call.arguments,
                   file_id |-> call.file_id, permissions |-> permissions,
                   body |-> body]
    /\ exec_out' = Execute(call, permissions, body)
    /\ UNCHANGED <<handler_vars, upserted, compact_vars, est_vars, auth_vars,
                   retr_vars>>

\* --------------------------------------------- upsert_task_state alone
NoUpsert ==
    [task_id |-> None, state |-> None, current_step |-> 0, total_steps |-> 0,
     prev_task_id |-> None]

\* One call of upsert_task_state by any caller.
UpsertOnce(session_id, task_id, state, current_step, total_steps) ==
    /\ task_state' = upsert_task_state(task_state, session_id, task_id, state,
                                        current_step, total_steps, None, None)
    /\ upserted' = [upserted EXCEPT ![session_id] =
          [task_id |-> task_id, state |-> state, current_step |-> current_step,
           total_steps |-> total_steps, prev_task_id |-> upserted[session_id].task_id]]
    /\ UNCHANGED <<registry_vars, turn, chat_messages, cancel_vars, perm_vars,
                   row_vars, exec_vars, compact_vars, est_vars, auth_vars, retr_vars>>

\* ------------------------------------------- maybe_compact_history alone
NoCompact == [session_id |-> None, history_messages |-> <<>>,
              pre_compact_messages |-> <<>>, compact_mode |-> None, enabled |-> TRUE]

\* One call of maybe_compact_history: the result, and the row it adds.
CompactOnce(session_id, history_messages, pre_compact_messages, compact_mode, enabled) ==
    LET result == maybe_compact_history(compactions, session_id, history_messages,
                      pre_compact_messages, compact_mode, enabled, "c0")
    IN  /\ compact_in = NoCompact
        /\ compact_in' = [session_id |-> session_id,
                          history_messages |-> history_messages,
                          pre_compact_messages |-> pre_compact_messages,
                          compact_mode |-> compact_mode, enabled |-> enabled]
        /\ compact_out' = result
        /\ compactions' = IF result.triggered THEN compactions \cup {result.record}
                          ELSE compactions
        /\ UNCHANGED <<handler_vars, exec_vars, upserted, est_vars, auth_vars,
                       retr_vars>>

NoRetrieval ==
    [readable_files |-> <<>>, embedding_raises |-> FALSE, searches |-> <<>>,
     query_tokens |-> <<>>, active_file_id |-> None, active_page |-> NoPage,
     called |-> FALSE]

NoBlocks ==
    [accepted |-> <<>>, semantic_failed |-> FALSE, used_tokens |-> 0,
     candidates |-> <<>>, ranked |-> <<>>, lexical |-> FALSE]

\* One call of retrieve_context_blocks.
RetrieveOnce(readable_files, embedding_raises, searches, stored, query_tokens, active_file_id, active_page) ==
    /\ retr_in' = [readable_files |-> readable_files,
                   embedding_raises |-> embedding_raises, searches |-> searches,
                   query_tokens |-> query_tokens,
                   active_file_id |-> active_file_id,
                   active_page |-> active_page, called |-> TRUE]
    /\ retr_out' = retrieve_context_blocks(readable_files, embedding_raises,
                       searches, stored, query_tokens, active_file_id, active_page)
    /\ UNCHANGED <<handler_vars, exec_vars, upserted, compact_vars, est_vars,
                   auth_vars>>

\* ------------------------------------------------- check_permission alone
NoAuth == [tool |-> None, file_id |-> NoFile, file_ids |-> <<>>,
           permissions |-> [f \in Files |-> "absent"]]

\* One call of check_permission: "ok" when it returns, else the error raised.
AuthorizeOnce(tool, file_id, file_ids, permissions) ==
    /\ auth_in' = [tool |-> tool, file_id |-> file_id, file_ids |-> file_ids,
                   permissions |-> permissions]
    /\ auth_out' = check_permission(tool, file_id, file_ids, permissions)
    /\ UNCHANGED <<handler_vars, exec_vars, upserted, compact_vars, est_vars,
                   retr_vars>>

\* ------------------------------------------------ the token estimates alone
NoEstimate ==
    [applied |-> FALSE, a |-> 0, b |-> 0, messages |-> <<>>, msg |-> Msg("user", 0)]

\* estimate_tokens applied to two texts, twice to the first, and
\* estimate_messages_tokens to a list and to the list with a message appended.
EstimateOnce(a, b, messages, msg) ==
    /\ est_in' = [applied |-> TRUE, a |-> a, b |-> b, messages |-> messages,
                  msg |-> msg]
    /\ est_out' = [a |-> estimate_tokens(a), b |-> estimate_tokens(b),
                   messages |-> estimate_messages_tokens(messages),
                   appended |-> estimate_messages_tokens(Append(messages, msg))]
    /\ UNCHANGED <<handler_vars, exec_vars, upserted, compact_vars, auth_vars,
                   retr_vars>>

\* ------------------------------------------------------------ the programs
AllCalls ==
    {c \in {ToolCall(n, a, f) : n \in ToolNames \cup {UnknownTool},
                                a \in DecodedArguments, f \in Files \cup {NoFile}} :
        c.file_id # NoFile => c.arguments \in {"object", "wrong_type"}}

\* One call of every way a call can end.
SampleCalls ==
    {ToolCall("read_document", "object", "f_md"),
     ToolCall("update_file", "object", "f_pdf"),
     ToolCall("read_document", "undecodable", NoFile),
     ToolCall("read_document", "null", NoFile),
     ToolCall(UnknownTool, "object", NoFile)}

SampleMaps ==
    {[f \in Files |-> "write"],
     [f \in Files |-> IF f = "f_md" THEN "none" ELSE "read"]}

SeqsUpTo(S, n) == UNION {[1..k -> S] : k \in 0..n}

\* Responses of the completion client: up to MaxCalls tool calls.
Responses(calls) == SeqsUpTo(calls, MaxCalls)

TypeOK ==
    /\ running_task_by_session \in [Sessions -> TaskIds \cup {None}]
    /\ task_to_session \in [TaskIds -> Sessions \cup {None}]
    /\ cancelled_tasks \subseteq TaskIds
    /\ cancel_count \in 0..MaxCancels
    /\ \A i \in Turns : turn[i].idx \in 0..MaxCalls
    /\ \A s \in Sessions : session_rows[s].permissions \in [Files -> StoredLevels]

\* The state of the process after start; the tables are left to Init and
\* InitStored.
InitProcess ==
    /\ running_task_by_session = [s \in Sessions |-> None]
    /\ task_to_session = [t \in TaskIds |-> None]
    /\ cancelled_tasks = {}
    /\ turn = [i \in Turns |-> IdleTurn]
    /\ cancel_count = 0
    /\ last_cancel = NoCancel
    /\ exec_in = NoExec
    /\ exec_out = Result(FALSE, FALSE, None, FALSE)
    /\ upserted = [s \in Sessions |-> NoUpsert]
    /\ compactions = {}
    /\ compact_in = NoCompact
    /\ compact_out = CompactResult(<<>>, FALSE, {}, None, 0, 0, NoRecord)
    /\ session_cache = [s \in Sessions |-> NoEntry]
    /\ perm_req = [u \in Updates |-> NoUpdate]
    /\ est_in = NoEstimate
    /\ est_out = [a |-> 0, b |-> 0, messages |-> 0, appended |-> 0]
    /\ auth_in = NoAuth
    /\ auth_out = None
    /\ retr_in = NoRetrieval
    /\ retr_out = NoBlocks

\* A process started on an empty database.
Init ==
    /\ InitProcess
    /\ chat_messages = [s \in Sessions |-> <<>>]
    /\ event_rows = [s \in Sessions |-> <<>>]
    /\ task_state = {}
    /\ session_rows = [s \in Sessions |-> NoRow]

\* The rows StoredTurns completed turns without tool calls left in a
\* session; the turns are numbered -1, -2, ... (the latest is -1).
RECURSIVE StoredMessages(_)
StoredMessages(n) ==
    IF n = 0 THEN <<>>
    ELSE <<Message(0 - n, "user", <<"request">>),
           Message(0 - n, "assistant", <<"initial">>)>> \o StoredMessages(n - 1)

StoredEvents ==
    <<Event("task_started", 5), Event("context_ready", 25),
      Event("model_call_started", 35), Event("model_call_completed", 55),
      Event("task_completed", 100)>>

\* The event rows of the last n of `total` stored turns.
RECURSIVE StoredEventRowsOf(_, _)
StoredEventRowsOf(n, total) ==
    IF n = 0 THEN <<>>
    ELSE EventRows(0 - n, StoredEvents, 1, 2 * (total - n))
         \o StoredEventRowsOf(n - 1, total)

StoredEventRows(n) == StoredEventRowsOf(n, StoredTurns)

\* A process started on a database in which every session has completed
\* StoredTurns turns.
InitStored ==
    /\ InitProcess
    /\ chat_messages = [s \in Sessions |-> StoredMessages(StoredTurns)]
    /\ event_rows = [s \in Sessions |-> StoredEventRows(StoredTurns)]
    /\ task_state =
          {[session_id |-> s, task_id |-> "t0", state |-> "done",
            current_step |-> 2, total_steps |-> 2, blocked_reason |-> None,
            last_message_id |-> MessageId(-1, "assistant")] : s \in Sessions}
    /\ session_rows = [s \in Sessions |-> SessionRow(EmptyMap)]

\* What the turns retrieve from: both files indexed, embeddings available.
Indexes == {Index(FALSE, Files)}

\* The steps of turn i with the model answering from `responses` and the
\* request overriding the session's permissions with one of `maps`.
TurnStep(i, responses, payloads, maps) ==
    \/ \E permissions \in maps : LoadSession(i, Request(TRUE, permissions, {}, "auto"))
    \/ PermissionSelect(i)
    \/ \E index \in Indexes : ContextReady(i, index)
    \/ StartModelCall(i)
    \/ \E tool_calls \in responses, payload \in payloads :
          ModelReturns(i, tool_calls, payload)
    \/ \E error \in ErrorTexts : ModelFails(i, error)
    \/ ToolCheck(i)
    \/ \E body \in BodyOutcomes : ToolReturns(i, body)
    \/ FollowupCheck(i)
    \/ \E ok \in BOOLEAN : FollowupReturns(i, ok)
    \/ FinalCheck(i)
    \/ Complete(i)
    \/ CancelHandler(i)
    \/ FailHandler(i)

CancelStep ==
    \E task_id \in TaskIds, session_id \in Sessions \cup {None} :
        cancel_task(task_id, session_id)

\* Concurrent turns and cancel requests; the model answers with at most one
\* tool call that the pipeline accepts.
ConcurrentResponses == {<<>>, <<ToolCall("read_document", "object", "f_md")>>}
ConcurrentMaps == {[f \in Files |-> "absent"]}

Next ==
    \/ \E i \in Turns, s \in Sessions, t \in SuppliedTaskIds \cup {None} :
          BeginReject(i, s, t)
    \/ \E i \in Turns, s \in Sessions, t \in SuppliedTaskIds \cup {None} :
          BeginRegister(i, s, t, TRUE)
    \/ \E i \in Turns : TurnStep(i, ConcurrentResponses, {NoPayload}, ConcurrentMaps)
    \/ CancelStep

Spec == Init /\ [][Next]_vars

\* One turn and cancel requests; the model answers with any sequence of the
\* sample calls.
NextTools ==
    \/ \E s \in Sessions, t \in SuppliedTaskIds \cup {None}, use_tools \in BOOLEAN :
          BeginRegister(1, s, t, use_tools)
    \/ TurnStep(1, Responses(SampleCalls), {NoPayload}, SampleMaps)
    \/ CancelStep

SpecTools == Init /\ [][NextTools]_vars

\* Requests of turns on sessions that have a file set to none: permissions
\* given or not, context files that name a file, the empty string, nothing.
GrantsRead == [f \in Files |-> IF f = "f_md" THEN "read" ELSE "invalid"]
HidesOne == [f \in Files |-> IF f = "f_md" THEN "none" ELSE "write"]
SessionRequests ==
    {Request(TRUE, GrantsRead, {}, "auto"), Request(TRUE, HidesOne, {"f_md"}, "auto"),
     Request(TRUE, HidesOne, {"", "f_md"}, "auto"), Request(FALSE, EmptyMap, {}, "auto"),
     Request(FALSE, EmptyMap, {"f_pdf"}, "auto")}

\* A request to a session endpoint is being handled for the session.
InFlight(session_id, kinds) ==
    \E u \in Updates : /\ perm_req[u].pc \in {"selected", "committed"}
                        /\ perm_req[u].session_id = session_id
                        /\ perm_req[u].kind \in kinds

\* Turns that the model answers without tool calls and that nobody cancels,
\* and requests to the session endpoints.  A session is deleted while no
\* turn of it runs, and no turn of it starts during the delete.
NextSessions ==
    \/ \E i \in Turns, s \in Sessions :
          /\ ~InFlight(s, {"delete"})
          /\ BeginRegister(i, s, None, FALSE)
    \/ \E i \in Turns, request \in SessionRequests : LoadSession(i, request)
    \/ \E i \in Turns : PermissionSelect(i)
    \/ \E i \in Turns, index \in Indexes : ContextReady(i, index)
    \/ \E i \in Turns : StartModelCall(i)
    \/ \E i \in Turns : ModelReturns(i, <<>>, NoPayload)
    \/ \E i \in Turns : FinalCheck(i)
    \/ \E i \in Turns : Complete(i)
    \/ \E u \in Updates, s \in Sessions, f \in Files, level \in {"read", "none"} :
          update_session_permissions(u, s, f, level)
    \/ \E u \in Updates, s \in Sessions, permissions \in {GrantsRead, HidesOne} :
          bulk_update_permissions(u, s, permissions)
    \/ \E u \in Updates, s \in Sessions :
          /\ \A i \in Turns : Active(i) => turn[i].session_id # s
          /\ delete_session(u, s)
    \/ \E u \in Updates : CommitSession(u)
    \/ \E u \in Updates : ReturnSession(u)

SpecSessions == Init /\ [][NextSessions]_vars

\* Requests with and without forced compaction.
CompactingRequests ==
    {Request(FALSE, EmptyMap, {}, compact_mode) : compact_mode \in {"force", "auto", None}}

\* Turns on sessions with a stored history; the model answers without tool
\* calls and nobody cancels.
NextCompacting ==
    \/ \E i \in Turns, s \in Sessions, t \in SuppliedTaskIds \cup {None} :
          BeginReject(i, s, t)
    \/ \E i \in Turns, s \in Sessions, t \in SuppliedTaskIds \cup {None} :
          BeginRegister(i, s, t, FALSE)
    \/ \E i \in Turns, request \in CompactingRequests : LoadSession(i, request)
    \/ \E i \in Turns : PermissionSelect(i)
    \/ \E i \in Turns, index \in Indexes : ContextReady(i, index)
    \/ \E i \in Turns : StartModelCall(i)
    \/ \E i \in Turns : ModelReturns(i, <<>>, NoPayload)
    \/ \E i \in Turns : FinalCheck(i)
    \/ \E i \in Turns : Complete(i)

SpecCompacting == InitStored /\ [][NextCompacting]_vars

\* ToolExecutor.execute applied once to any call under any permission map.
NextExec ==
    \E call \in AllCalls, permissions \in PermissionMaps, body \in BodyOutcomes :
        ExecuteOnce(call, permissions, body)

SpecExec == Init /\ [][NextExec]_vars

\* Step values a model or a caller may name: negative, zero, large.
StepValues == {-1, 0, 7}

\* Task updates a model may embed in its content.
Payloads ==
    {NoPayload} \cup [state : TASK_STATES, numeric : BOOLEAN,
                      current_step : StepValues, total_steps : StepValues]

UpdateResponses == SeqsUpTo({ToolCall("read_document", "object", "f_md")}, MaxCalls)

\* One turn whose model embeds any task update in its answer.
NextUpdates ==
    \/ \E s \in Sessions, t \in SuppliedTaskIds \cup {None}, use_tools \in BOOLEAN :
          BeginRegister(1, s, t, use_tools)
    \/ TurnStep(1, UpdateResponses, Payloads, ConcurrentMaps)
    \/ CancelStep

SpecUpdates == Init /\ [][NextUpdates]_vars

\* upsert_task_state applied any number of times by any caller.
NextUpsert ==
    \E session_id \in Sessions, task_id \in SuppliedTaskIds \cup {Uuid(1)},
       state \in {"executing", "done"},
       current_step \in StepValues, total_steps \in StepValues :
        UpsertOnce(session_id, task_id, state, current_step, total_steps)

SpecUpsert == Init /\ [][NextUpsert]_vars

\* Session histories: up to MaxHistory stored messages of 20 characters.
HistoryKinds == {Msg("user", 20), Msg("assistant", 20), Msg("task_event", 20)}
Histories == SeqsUpTo(HistoryKinds, MaxHistory)

\* Lengths of the request: small, and such that a history of seven user
\* messages is estimated one under and exactly at COMPACT_TRIGGER_TOKENS.
RequestLens == {40, 319420, 319424}

CompactModes == {None, "auto", "off", "OFF", "force"}

\* maybe_compact_history applied once to the messages chat_completion builds
\* from a history, under either value of settings.AUTO_COMPACT_ENABLED.
NextCompact ==
    /\ compact_in = NoCompact
    /\ \E history_messages \in Histories, request_len \in RequestLens,
          compact_mode \in CompactModes, enabled \in BOOLEAN :
           CompactOnce("s1", history_messages,
                       BaseMessages(400, history_messages, request_len),
                       compact_mode, enabled)

SpecCompact == Init /\ [][NextCompact]_vars

\* Texts by their length, and short lists of messages.
TextLens == 0..MaxTextLen
EstimateKinds == {Msg("user", 0), Msg("assistant", MaxTextLen)}

\* The token estimates applied any number of times.
NextEstimate ==
    \E a \in TextLens, b \in TextLens, messages \in SeqsUpTo(EstimateKinds, 2),
       msg \in EstimateKinds :
        EstimateOnce(a, b, messages, msg)

SpecEstimate == Init /\ [][NextEstimate]_vars

\* Hits of a search for file_id: chunks 0 and 1 of page 1 of the files the
\* search ranges over, contents of 10000, 9000 and 8000 estimated tokens, at
\* distance 0 or 1.
Hits(file_id) ==
    {Hit(f, 1, chunk_index, len, distance) :
        f \in SearchFilter(file_id, Files), chunk_index \in {0, 1},
        len \in {40000, 36000, 32000}, distance \in {0, 1}}

SearchOutcomes(file_id) ==
    {[raises |-> TRUE, hits |-> <<>>]}
        \cup {[raises |-> FALSE, hits |-> hits] :
                 hits \in SeqsUpTo(Hits(file_id), MaxHits)}

\* What the searches for a list of at most two files can do.
SearchesOf(readable_files) ==
    CASE Len(readable_files) = 0 -> {<<>>}
      [] Len(readable_files) = 1 ->
            {<<a>> : a \in SearchOutcomes(readable_files[1])}
      [] OTHER ->
            {<<a, b>> : a \in SearchOutcomes(readable_files[1]),
                        b \in SearchOutcomes(readable_files[2])}

ReadableLists == {<<>>, <<"f_md">>, <<"f_md", "f_pdf">>}

\* The stored chunks of the two files.
StoredChunks ==
    [f \in Files |->
        IF f = "f_md"
        THEN <<Chunk(1, 0, 40000, {"a"}), Chunk(1, 1, 36000, {"a", "b"})>>
        ELSE <<Chunk(1, 0, 32000, {"b"}), Chunk(2, 0, 4, {})>>]

\* _tokenize_lexical(query)
Queries == {<<>>, <<"a", "b">>}

ActiveViewports ==
    {[file_id |-> None, page |-> NoPage], [file_id |-> "f_pdf", page |-> 1]}

\* retrieve_context_blocks applied once.
NextRetrieve ==
    /\ ~retr_in.called
    /\ \E readable_files \in ReadableLists, embedding_raises \in BOOLEAN,
          query_tokens \in Queries, active \in ActiveViewports :
         \E searches \in SearchesOf(readable_files) :
            RetrieveOnce(readable_files, embedding_raises, searches, StoredChunks,
                         query_tokens, active.file_id, active.page)

SpecRetrieve == Init /\ [][NextRetrieve]_vars

\* check_permission applied once to any tool, arguments and permission map.
NextAuthorize ==
    /\ auth_in = NoAuth
    /\ \E tool \in ToolNames, file_id \in Files \cup {NoFile},
          file_ids \in SeqsUpTo(Files, 2), permissions \in PermissionMaps :
           AuthorizeOnce(tool, file_id, file_ids, permissions)

SpecAuthorize == Init /\ [][NextAuthorize]_vars

\* ================================================================== claims
Exits(i) == Active(i) /\ turn'[i].pc = "exited"

\* C1: for any single session at most one invocation is past the registry
\* check at a time, whatever task ids the callers supply or have generated.
C1_SingleFlight ==
    \A i, j \in Turns :
        (i # j /\ Active(i) /\ Active(j)) => turn[i].session_id # turn[j].session_id

\* C2: an invocation for a session whose registry entry holds a different
\* task id is answered with a conflict naming that task id, and the step
\* changes neither the registry, the cancellation set, the stored records
\* nor any other turn, and emits no event.
C2_ConflictChangesNothing ==
    [][\A i \in Turns :
        (turn[i].pc = "idle" /\ turn'[i].pc # "idle") =>
            LET s == turn'[i].session_id
                existing == running_task_by_session[s]
            IN  (Truthy(existing) /\ existing # turn'[i].task_id) =>
                    /\ turn'[i].pc = "rejected"
                    /\ turn'[i].response.status = 409
                    /\ turn'[i].response.detail = existing
                    /\ turn'[i].events = <<>>
                    /\ running_task_by_session' = running_task_by_session
                    /\ task_to_session' = task_to_session
                    /\ cancelled_tasks' = cancelled_tasks
                    /\ chat_messages' = chat_messages
                    /\ task_state' = task_state
                    /\ \A j \in Turns \ {i} : turn'[j] = turn[j]]_vars

C2_Witness ==
    \E i, j \in Turns :
        /\ turn[i].pc = "rejected" /\ turn[i].response.status = 409
        /\ Active(j) /\ turn[j].session_id = turn[i].session_id
        /\ running_task_by_session[turn[j].session_id] = turn[j].task_id

\* C3: when the handler of a registered turn exits (done, cancelled or
\* failed) the registry holds no entry for its session or its task id and its
\* task id is not flagged cancelled, so every task id passes the registry
\* check of that session; and a session is registered only while one of its
\* turns is active.
C3_CleanupOnExit ==
    /\ [][\A i \in Turns :
            Exits(i) =>
                /\ running_task_by_session'[turn[i].session_id] = None
                /\ task_to_session'[turn[i].task_id] = None
                /\ turn[i].task_id \notin cancelled_tasks'
                /\ turn'[i].outcome \in {"done", "cancelled", "failed"}]_vars
    /\ [](\A s \in Sessions :
            Truthy(running_task_by_session[s]) =>
                \E i \in Turns : Active(i) /\ turn[i].session_id = s)

C3_Witness ==
    \E i, j \in Turns :
        /\ turn[i].pc = "exited" /\ turn[i].outcome = "failed"
        /\ turn[j].pc = "started" /\ turn[j].session_id = turn[i].session_id
        /\ turn[j].task_id # turn[i].task_id

\* C4: a turn whose cancel was recorded before its first checkpoint (also
\* before it was registered) ends cancelled, with the task state row blocked
\* for the reason cancelled_by_user, and runs no tool call.
C4_EarlyCancelBlocks ==
    [][\A i \in Turns :
        (Exits(i) /\ turn[i].cancel_at = "before_first_checkpoint") =>
            /\ turn'[i].outcome = "cancelled"
            /\ Row(task_state', turn[i].session_id).state = "blocked"
            /\ Row(task_state', turn[i].session_id).blocked_reason = "cancelled_by_user"
            /\ turn'[i].exec_calls = 0]_vars

\* Positions at which the next step of the turn evaluates a checkpoint.
CheckpointPositions ==
    {"started", "perm_select", "ctx_ready", "tool_check", "followup_check",
     "followup_call", "final_check"}

\* C5: a positive cancellation check ends the turn as a cancellation, never
\* as an error: task state blocked/cancelled_by_user, the user message and
\* the assistant message "Task cancelled by user." stored, task_cancelled
\* emitted last and no task_failed, a success response flagged cancelled.
C5_CancelIsNotAnError ==
    [][\A i \in Turns :
        LET t == turn[i]
            s == t.session_id
            n == Len(chat_messages'[s])
        IN  /\ (/\ t.pc \in CheckpointPositions
                /\ turn'[i].pc # t.pc
                /\ is_task_cancelled(t.task_id)) => turn'[i].pc = "except_cancel"
            /\ (t.pc = "except_cancel" /\ turn'[i].pc # "except_cancel") =>
                /\ turn'[i].pc = "exited"
                /\ turn'[i].outcome = "cancelled"
                /\ turn'[i].response.status = 200
                /\ turn'[i].response.cancelled
                /\ turn'[i].response.message_id = MessageId(i, "assistant")
                /\ Row(task_state', s) =
                                    [session_id |-> s,
                                     task_id |-> t.task_id, state |-> "blocked",
                                     current_step |-> 0, total_steps |-> 0,
                                     blocked_reason |-> "cancelled_by_user",
                                     last_message_id |-> MessageId(i, "assistant")]
                /\ n = Len(chat_messages[s]) + 2
                /\ chat_messages'[s][n - 1] = Message(i, "user", <<"request">>)
                /\ chat_messages'[s][n] =
                      Message(i, "assistant", <<"Task cancelled by user.">>)
                /\ turn'[i].events[Len(turn'[i].events)].event_type = "task_cancelled"
                /\ \A k \in 1..Len(turn'[i].events) :
                      turn'[i].events[k].event_type # "task_failed"]_vars

C5_Witness ==
    \E i \in Turns :
        /\ turn[i].pc = "exited" /\ turn[i].outcome = "cancelled"
        /\ turn[i].exec_calls > 0

\* C6: cancel_task answers "cancelling" and flags the task whenever the task
\* has a registry mapping or the caller supplies a session fallback; it
\* reports and notifies the mapped session if there is one, else the
\* fallback; it answers not-found exactly when there is neither, and then
\* flags nothing and notifies nobody.
C6_CancelResolves ==
    [][cancel_count' # cancel_count =>
        LET task_id == last_cancel'.task_id
            fallback == last_cancel'.fallback
            mapped == task_to_session[task_id]
        IN  IF mapped # None \/ fallback # None
            THEN /\ last_cancel'.status = 200
                 /\ task_id \in cancelled_tasks'
                 /\ last_cancel'.session_id = (IF mapped # None THEN mapped ELSE fallback)
                 /\ last_cancel'.notified = last_cancel'.session_id
            ELSE /\ last_cancel'.status = 404
                 /\ cancelled_tasks' = cancelled_tasks
                 /\ last_cancel'.notified = None]_vars

\* C7: once a cancel is recorded for a running turn before its final
\* checkpoint, at most one more model or tool call of the turn returns, and
\* the turn ends cancelled (or failed), never done.
C7_CancelBoundedLatency ==
    [][\A i \in Turns :
        (Exits(i) /\ turn[i].cancel_at # "never") =>
            /\ turn'[i].outcome \in {"cancelled", "failed"}
            /\ turn'[i].calls_after_cancel <= 1]_vars

\* C8: with use_tools, a model response of n tool calls and no cancellation,
\* the turn completes as done with exactly n tool results in the order of the
\* calls, however the single calls fail; an unknown name gives a result with
\* success false and error_code TOOL_NOT_FOUND.
C8_ToolFaultsNeverFailTurn ==
    [][\A i \in Turns :
        (/\ Exits(i)
         /\ turn[i].use_tools
         /\ turn[i].final_content # <<>>
         /\ turn'[i].outcome # "cancelled") =>
            /\ turn'[i].outcome = "done"
            /\ Len(turn'[i].tool_results) = Len(turn[i].tool_calls)
            /\ \A k \in 1..Len(turn[i].tool_calls) :
                  /\ turn'[i].tool_results[k].tool = turn[i].tool_calls[k].name
                  /\ turn[i].tool_calls[k].name = UnknownTool =>
                        /\ ~turn'[i].tool_results[k].success
                        /\ turn'[i].tool_results[k].error_code = "TOOL_NOT_FOUND"]_vars

\* The stages of a call, read off the call and the schema of its tool.
Known(x) == x.name \in ToolNames
Conforms(x) ==
    CASE x.arguments = "object" -> HasRequired(x.name) => x.file_id # NoFile
      [] x.arguments = "empty_object" -> ~HasRequired(x.name)
      [] x.arguments = "wrong_type" -> ~HasProperties(x.name)
      [] OTHER -> FALSE
Authorized(x) ==
    \/ x.file_id = NoFile
    \/ LET level == IF x.permissions[x.file_id] = "absent" THEN "read"
                    ELSE x.permissions[x.file_id]
       IN  /\ level # "none"
           /\ RequiredPermission(x.name) = "write" =>
                 /\ level = "write"
                 /\ WritableOnly(x.name) => FileTypeOf(x.file_id) \in {"md", "txt"}

\* C9: execute reports the first failing stage in the order lookup,
\* validate, authorize, execute (TOOL_NOT_FOUND, VALIDATION_ERROR,
\* PERMISSION_DENIED, EXECUTION_ERROR), and the tool body runs only if the
\* three earlier stages passed.
C9_FirstFailingStage ==
    exec_in # NoExec =>
        /\ ~exec_out.raised
        /\ ~Known(exec_in) => exec_out.error_code = "TOOL_NOT_FOUND"
        /\ (Known(exec_in) /\ ~Conforms(exec_in)) =>
              exec_out.error_code = "VALIDATION_ERROR"
        /\ (Known(exec_in) /\ Conforms(exec_in) /\ ~Authorized(exec_in)) =>
              exec_out.error_code = "PERMISSION_DENIED"
        /\ (Known(exec_in) /\ Conforms(exec_in) /\ Authorized(exec_in)
              /\ exec_in.body = "raises") => exec_out.error_code = "EXECUTION_ERROR"
        /\ exec_out.body_ran =>
              (Known(exec_in) /\ Conforms(exec_in) /\ Authorized(exec_in))

\* The content of a turn before its follow-up call: the initial content and
\* one summary fragment per tool result.
PreFollowupContent(t) ==
    <<"initial">> \o [k \in 1..Len(t.tool_results) |->
                        IF t.tool_results[k].success THEN "tool_ok" ELSE "tool_error"]

\* C10 as stated: every turn makes 1 or 2 model calls, one follow-up exactly
\* when a tool call was executed and never a second one, and a turn whose
\* follow-up call fails completes as done with the pre-follow-up content.
C10_Original ==
    [][\A i \in Turns :
        Exits(i) =>
            /\ turn'[i].model_calls \in {1, 2}
            /\ turn'[i].followup_calls <= 1
            /\ turn'[i].followup_calls = 1 <=> turn'[i].exec_calls >= 1
            /\ turn[i].followup = "failed" =>
                  /\ turn'[i].outcome = "done"
                  /\ turn'[i].response.content = PreFollowupContent(turn[i])]_vars

\* C10 amended: no turn makes more than 2 model calls or more than one
\* follow-up call, and a follow-up call is made only after a tool call was
\* executed; a turn that completes as done made 1 or 2 model calls, the
\* follow-up exactly when a tool call was executed; a turn whose follow-up
\* call fails does not fail: it completes as done with the pre-follow-up
\* content unless a cancel is seen at the final checkpoint.
C10_FollowupOnce ==
    [][\A i \in Turns :
        Exits(i) =>
            /\ turn'[i].model_calls <= 2
            /\ turn'[i].followup_calls <= 1
            /\ turn'[i].followup_calls = 1 => turn'[i].exec_calls >= 1
            /\ turn'[i].outcome = "done" =>
                  /\ turn'[i].model_calls = 1 + turn'[i].followup_calls
                  /\ turn'[i].followup_calls = 1 <=> turn'[i].exec_calls >= 1
            /\ turn[i].followup = "failed" =>
                  /\ turn'[i].outcome \in {"done", "cancelled"}
                  /\ turn'[i].outcome = "done" =>
                        /\ turn'[i].response.content = PreFollowupContent(turn[i])
                        /\ chat_messages'[turn[i].session_id]
                              [Len(chat_messages'[turn[i].session_id])].content
                              = PreFollowupContent(turn[i])]_vars

C10_Witness ==
    \E i \in Turns :
        /\ turn[i].pc = "exited" /\ turn[i].outcome = "done"
        /\ turn[i].followup = "failed"
        /\ turn[i].model_calls = 2
        /\ Len(turn[i].tool_results) = 2
        /\ turn[i].response.content = PreFollowupContent(turn[i])

\* C11: a failure of the primary model call is a hard failure of the turn:
\* no tool call is executed, the user message and an assistant "Task failed"
\* message are stored, the task state row is blocked with the error text
\* (cut to 600 characters by short_text) as blocked_reason, task_failed is
\* emitted last, the invocation answers HTTP 500 and the registry holds
\* nothing of the turn afterwards.
C11_PrimaryFailureIsHard ==
    [][\A i \in Turns :
        LET t == turn[i]
            s == t.session_id
            n == Len(chat_messages'[s])
        IN  /\ (t.pc = "model_call" /\ t.followup = "none"
                  /\ turn'[i].error # t.error) =>
                    /\ turn'[i].pc = "except_error"
                    /\ turn'[i].exec_calls = 0
            /\ (t.pc = "except_error" /\ t.exec_calls = 0
                  /\ turn'[i].pc # "except_error") =>
                    /\ turn'[i].pc = "exited"
                    /\ turn'[i].outcome = "failed"
                    /\ turn'[i].response.status = 500
                    /\ turn'[i].exec_calls = 0
                    /\ turn'[i].tool_results = <<>>
                    /\ n = Len(chat_messages[s]) + 2
                    /\ chat_messages'[s][n - 1] = Message(i, "user", <<"request">>)
                    /\ chat_messages'[s][n] =
                          Message(i, "assistant", <<"Task failed: " \o t.error>>)
                    /\ Row(task_state', s) =
                          [session_id |-> s, task_id |-> t.task_id,
                           state |-> "blocked", current_step |-> 0, total_steps |-> 0,
                           blocked_reason |-> short_text(t.error, BlockedReasonLimit),
                           last_message_id |-> MessageId(i, "assistant")]
                    /\ TextLen(t.error) <= BlockedReasonLimit =>
                          Row(task_state', s).blocked_reason = t.error
                    /\ turn'[i].events[Len(turn'[i].events)].event_type = "task_failed"
                    /\ running_task_by_session'[s] = None
                    /\ task_to_session'[t.task_id] = None
                    /\ t.task_id \notin cancelled_tasks']_vars

C11_Witness ==
    \E i \in Turns :
        /\ turn[i].pc = "exited" /\ turn[i].outcome = "failed"
        /\ turn[i].exec_calls = 0 /\ turn[i].error = "long error"
        /\ Row(task_state, turn[i].session_id).blocked_reason = "long error..."

\* The messages of a role that turn i has committed to session s.
Committed(i, s, role) ==
    {k \in 1..Len(chat_messages[s]) :
        chat_messages[s][k].turn = i /\ chat_messages[s][k].role = role}

\* C12: a turn that passed the registry check and ended (done, cancelled or
\* failed) has exactly one user message and exactly one assistant message
\* committed, both in its own session, and a turn that has not ended has
\* none; when a turn ends done or cancelled the message_id it returns is the
\* id of its committed assistant message and the task state row's
\* last_message_id is that id.
C12_OneMessagePairPerTurn ==
    /\ [](\A i \in Turns, s \in Sessions, role \in {"user", "assistant"} :
            Cardinality(Committed(i, s, role)) =
                IF turn[i].pc = "exited" /\ s = turn[i].session_id THEN 1 ELSE 0)
    /\ [][\A i \in Turns :
            (Exits(i) /\ turn'[i].outcome \in {"done", "cancelled"}) =>
                LET s == turn[i].session_id
                    last == chat_messages'[s][Len(chat_messages'[s])]
                IN  /\ last.turn = i /\ last.role = "assistant"
                    /\ turn'[i].response.message_id = last.id
                    /\ Row(task_state', s).last_message_id = last.id]_vars

C12_Witness ==
    \E i, j \in Turns :
        /\ turn[i].pc = "exited" /\ turn[i].outcome = "failed"
        /\ turn[j].pc = "exited" /\ turn[j].outcome = "done"
        /\ turn[i].session_id = turn[j].session_id
        /\ Len(chat_messages[turn[i].session_id]) = 4

\* C13: the response of a failed turn carries the envelope of a completed
\* turn (message_id, content, tool_calls, tool_results, citations, task_id,
\* task_state, compact_meta) and a status flag, as that of a cancelled turn
\* does.
C13_FailedKeepsEnvelope ==
    \A i \in Turns :
        (turn[i].pc = "exited" /\ turn[i].outcome \in {"cancelled", "failed"}) =>
            /\ Envelope \subseteq turn[i].response.keys
            /\ turn[i].response.keys \ CompletedKeys # {}

\* C14: every task state snapshot written during a turn, whatever step
\* values a model-emitted task update carries, has current_step >= 0 and,
\* when total_steps > 0, current_step <= total_steps.
C14_StepsWithinTotal ==
    \A r \in task_state :
        /\ r.current_step >= 0
        /\ r.total_steps > 0 => r.current_step <= r.total_steps

C14_Witness ==
    \E r \in task_state :
        /\ r.current_step = 7 /\ r.total_steps = 7
        /\ turn[1].pc \in {"tool_check", "final_check"}

Rank(state) ==
    CASE state = "planning" -> 0
      [] state = "executing" -> 1
      [] state = "done" -> 2
      [] OTHER -> 3

\* C15: within a turn the task state of its session moves only forward along
\* planning, executing, done, or to blocked; once blocked it stays blocked
\* for the rest of the turn.
C15_MonotoneStates ==
    [][\A i \in Turns :
        LET s == turn[i].session_id
        IN  (/\ Active(i)
             /\ RowsOf(task_state, s) # {} /\ RowsOf(task_state', s) # {}
             /\ Row(task_state, s).task_id = turn[i].task_id
             /\ Row(task_state', s).task_id = turn[i].task_id) =>
                /\ Row(task_state, s).state = "blocked" =>
                      Row(task_state', s).state = "blocked"
                /\ Rank(Row(task_state, s).state) <= Rank(Row(task_state', s).state)]_vars

\* C16: whatever current_step and total_steps a caller passes to
\* upsert_task_state, the stored row has current_step >= 0 and
\* total_steps >= current_step.
C16_UpsertClamps ==
    \A r \in task_state : r.current_step >= 0 /\ r.total_steps >= r.current_step

ModeOff == compact_in.compact_mode \in {"off", "OFF"}
ModeForce == compact_in.compact_mode = "force"
ModeAuto == compact_in.compact_mode \in {None, "auto"}
TurnCount == Len(Conversational(compact_in.history_messages))
TokenEstimate == estimate_messages_tokens(compact_in.pre_compact_messages)
Compacted == compact_out.triggered /\ compact_out.record \in compactions

\* C18: with mode off (any size of the list), with global compaction
\* disabled, in auto mode under the trigger threshold, and with six or fewer
\* conversational messages, maybe_compact_history returns the list it was
\* given unchanged, triggered false, and stores no compaction record.
C18_NoOpPaths ==
    (/\ compact_in # NoCompact
     /\ \/ ModeOff
        \/ ~compact_in.enabled
        \/ ModeAuto /\ TokenEstimate < COMPACT_TRIGGER_TOKENS
        \/ TurnCount <= 6) =>
        /\ compact_out.messages = compact_in.pre_compact_messages
        /\ ~compact_out.triggered
        /\ "triggered" \in compact_out.meta_keys
        /\ compact_out.record = NoRecord
        /\ compactions = {}

C18_Witness ==
    /\ compact_in.compact_mode = "OFF" /\ compact_in.enabled
    /\ TurnCount > 6 /\ TokenEstimate >= COMPACT_TRIGGER_TOKENS
    /\ compact_out.messages = compact_in.pre_compact_messages
    /\ ~compact_out.triggered

\* C19: in mode force with more than 6 conversational messages,
\* maybe_compact_history compacts whatever the token estimate: triggered is
\* true and a compaction record is stored.
C19_ForceAlwaysCompacts ==
    (compact_in # NoCompact /\ ModeForce /\ TurnCount > 6) => Compacted

\* C20 as stated: in auto mode compaction fires exactly when global
\* compaction is enabled and the estimate reaches the trigger threshold or
\* the conversational count exceeds 6, either alone being enough.
C20_Original ==
    (compact_in # NoCompact /\ ModeAuto) =>
        (Compacted <=>
            /\ compact_in.enabled
            /\ TokenEstimate >= COMPACT_TRIGGER_TOKENS \/ TurnCount > 6)

\* C20 amended: in auto mode compaction fires exactly when global compaction
\* is enabled, the estimate reaches the trigger threshold and the
\* conversational count exceeds 6; neither condition alone is enough.  When
\* it does not fire no record is stored.
C20_AutoNeedsBoth ==
    (compact_in # NoCompact /\ ModeAuto) =>
        /\ Compacted <=>
              /\ compact_in.enabled
              /\ TokenEstimate >= COMPACT_TRIGGER_TOKENS
              /\ TurnCount > 6
        /\ ~compact_out.triggered => compactions = {}

C20_Witness ==
    /\ compact_in.compact_mode = "auto" /\ compact_in.enabled
    /\ TokenEstimate = COMPACT_TRIGGER_TOKENS /\ TurnCount = 7
    /\ Compacted
    /\ compact_out.reason = "trigger_threshold"

AuthPassed == auth_out = "ok"
AuthDenied == auth_out = "ToolPermissionError"
AuthTarget ==
    IF auth_in.file_id \in Files THEN auth_in.file_id
    ELSE IF Len(auth_in.file_ids) = 1 THEN auth_in.file_ids[1] ELSE NoFile
AuthLevel == auth_in.permissions[AuthTarget]

\* C25: for a tool that requires write and a target file F, authorization
\* fails when F's level is read, absent or none; with level write it fails
\* when the tool is write-restricted and F's type is not a writable type; with
\* level write and a writable type it succeeds.
C25_WriteGate ==
    (auth_in.tool = "update_file" /\ AuthTarget \in Files) =>
        /\ AuthLevel \in {"read", "absent", "none"} => AuthDenied
        /\ (AuthLevel = "write" /\ AuthTarget = "f_pdf") => AuthDenied
        /\ (AuthLevel = "write" /\ AuthTarget = "f_md") => AuthPassed

C25_Witness ==
    /\ auth_in.tool = "update_file" /\ auth_in.file_id = "f_pdf"
    /\ AuthLevel = "write" /\ AuthDenied

\* C26: for any tool and target file F, level none fails whatever the tool
\* requires; for a tool that requires read the levels read and write and an
\* absent entry are authorized; without a target file (no file_id, and
\* file_ids not of one element) nothing is checked.
C26_ReadGate ==
    auth_in.tool \in ToolNames =>
        /\ (AuthTarget \in Files /\ AuthLevel = "none") => AuthDenied
        /\ (/\ auth_in.tool = "read_document" /\ AuthTarget \in Files
            /\ AuthLevel \in {"read", "write", "absent"}) => AuthPassed
        /\ AuthTarget = NoFile => AuthPassed

C26_Witness ==
    /\ auth_in.tool = "read_document" /\ auth_in.file_id = NoFile
    /\ auth_in.file_ids = <<"f_pdf">>
    /\ AuthLevel = "absent" /\ AuthPassed

\* The blocks retrieve_context_blocks returned, by position.
AcceptedAt == 1..Len(retr_out.accepted)
RankedAt == 1..Len(retr_out.ranked)
IsAccepted(k) == \E j \in AcceptedAt : retr_out.accepted[j] = retr_out.ranked[k]
RECURSIVE AcceptedBefore(_)
AcceptedBefore(k) ==
    IF k <= 1 THEN 0
    ELSE AcceptedBefore(k - 1)
         + (IF IsAccepted(k - 1) THEN retr_out.ranked[k - 1].len \div 4 ELSE 0)

\* C22: the blocks returned hold at most one entry per (file_id, page,
\* chunk_index), and of two candidates with one key and different scores only
\* the higher-scoring one can be among them.
C22_DedupKeepsHigher ==
    /\ \A j, k \in AcceptedAt :
          KeyOf(retr_out.accepted[j]) = KeyOf(retr_out.accepted[k]) => j = k
    /\ \A j \in AcceptedAt : \A c \in 1..Len(retr_out.candidates) :
          KeyOf(retr_out.candidates[c]) = KeyOf(retr_out.accepted[j]) =>
              retr_out.candidates[c].score <= retr_out.accepted[j].score

C22_Witness ==
    /\ retr_in.called
    /\ \E b, c \in 1..Len(retr_out.candidates) :
          /\ b < c
          /\ KeyOf(retr_out.candidates[b]) = KeyOf(retr_out.candidates[c])
          /\ retr_out.candidates[b].score > retr_out.candidates[c].score
          /\ \E j \in AcceptedAt : retr_out.accepted[j] = retr_out.candidates[b]

\* C23: the deduplicated candidates are walked in descending score order and
\* a candidate is accepted exactly when its estimate added to the total of
\* those accepted before it stays within DOC_CONTEXT_BUDGET_TOKENS; one that
\* does not fit is skipped whole and the walk goes on.  So the total of the
\* accepted blocks is within the budget and they are in descending score
\* order.
C23_BudgetWalk ==
    /\ \A j, k \in RankedAt :
          j < k => retr_out.ranked[j].score >= retr_out.ranked[k].score
    /\ \A k \in RankedAt :
          IsAccepted(k) <=>
              AcceptedBefore(k) + retr_out.ranked[k].len \div 4
                  <= DOC_CONTEXT_BUDGET_TOKENS
    /\ \A j \in AcceptedAt : \E k \in RankedAt :
          retr_out.accepted[j] = retr_out.ranked[k]
    /\ retr_out.used_tokens <= DOC_CONTEXT_BUDGET_TOKENS
    /\ \A j, k \in AcceptedAt :
          j < k => retr_out.accepted[j].score >= retr_out.accepted[k].score
    /\ \A j \in AcceptedAt : \E c \in 1..Len(retr_out.candidates) :
          retr_out.accepted[j] = retr_out.candidates[c]

\* A larger block is skipped and a smaller, lower-ranked one accepted.
C23_Witness ==
    /\ retr_in.called
    /\ \E j, k \in RankedAt :
          /\ j < k /\ ~IsAccepted(j) /\ IsAccepted(k)
          /\ retr_out.ranked[j].score > retr_out.ranked[k].score
          /\ retr_out.ranked[j].len > retr_out.ranked[k].len
    /\ retr_out.used_tokens = DOC_CONTEXT_BUDGET_TOKENS

\* C24: when the query embedding fails, when a vector search fails (also
\* after some files were searched) or when the semantic search yields no
\* candidate, retrieval scores the stored chunks of the readable files
\* lexically and reports semantic_failed.
C24_FallsBackToLexical ==
    (/\ retr_in.called /\ retr_in.readable_files # <<>>
     /\ \/ retr_in.embedding_raises
        \/ \E k \in 1..Len(retr_in.searches) : retr_in.searches[k].raises
        \/ \A k \in 1..Len(retr_in.searches) : retr_in.searches[k].hits = <<>>) =>
        /\ retr_out.semantic_failed
        /\ retr_out.lexical
        /\ retr_out.candidates =
              LexicalSearch(retr_in.readable_files, StoredChunks,
                            retr_in.query_tokens, retr_in.active_file_id,
                            retr_in.active_page)


\* ------------------------------------------------ C27, C28, C30: sessions
\* The step with which turn i resolves its permission context and retrieves.
Resolves(i) == turn[i].pc = "perm_select" /\ turn'[i].pc = "ctx_ready"

\* C27: a file whose level in the session's stored map is none is in no
\* turn's readable files, permitted files or citations, whether or not the
\* request lists it in context_files.
C27_NoneIsHidden ==
    [][\A i \in Turns : \A f \in Files :
        (/\ Resolves(i)
         /\ turn[i].session_permissions[f] = "none"
         /\ session_rows[turn[i].session_id].permissions[f] = "none") =>
            /\ \A k \in 1..Len(turn'[i].readable_files) : turn'[i].readable_files[k] # f
            /\ f \notin turn'[i].permitted_files
            /\ f \notin turn'[i].citations]_vars

\* C28: a turn that starts after every request to the session endpoints
\* has returned resolves a permission context equal to the stored map of its
\* session, whatever other turns ran meanwhile.
C28_FreshAfterUpdate ==
    [][\A i \in Turns :
        (/\ Resolves(i)
         /\ turn[i].after_updates = Updates
         /\ \E u \in Updates : perm_req[u].status = 200 /\ perm_req[u].kind # "delete") =>
            turn'[i].permissions =
                ParsePermissions(session_rows[turn[i].session_id].permissions)]_vars

\* C30: once delete_session has returned for a session, the messages of
\* the session hold no row of a turn that did not start after it, and after
\* one completed turn on the session they are at most two.
C30_DeleteLeavesNoHistory ==
    \A u \in Updates :
        (perm_req[u].kind = "delete" /\ perm_req[u].status = 200) =>
            LET s == perm_req[u].session_id
                rows == get_session_messages(s, 50)
                later == {i \in Turns : /\ turn[i].session_id = s
                                        /\ u \in turn[i].after_updates
                                        /\ turn[i].pc \notin {"idle", "rejected"}}
            IN  /\ \A k \in 1..Len(rows) : rows[k].turn \in later
                /\ (/\ Cardinality(later) = 1
                    /\ \A i \in later : turn[i].outcome = "done") => Len(rows) <= 2
\* ------------------------------------------- C21: compaction sequences
\* The largest sequence among the compaction records of a session, 0 when
\* it has none.
MaxSequence(rows, session_id) ==
    LET mine == {r.sequence : r \in {q \in rows : q.session_id = session_id}}
    IN  IF mine = {} THEN 0 ELSE CHOOSE n \in mine : \A m \in mine : m <= n

\* C21: every compaction record that is stored carries the sequence that
\* follows the largest one stored for its session (1 for the first), at most
\* one record is stored at a time and no stored record changes or goes; so
\* the sequences of a session are pairwise distinct and increase in the
\* order of creation, also when turns run concurrently.
C21_SequenceIncreases ==
    [][/\ compactions \subseteq compactions'
       /\ Cardinality(compactions' \ compactions) <= 1
       /\ \A r \in compactions' \ compactions :
             r.sequence = MaxSequence(compactions, r.session_id) + 1]_vars

\* ------------------------------------------------ C39: cancellation set
\* C39: the cancellation set holds only task ids of running turns; while no
\* turn is active it is empty.
C39_CancelledAreRunning ==
    (\A i \in Turns : ~Active(i)) => cancelled_tasks = {}

\* ------------------------------------------------- C32: registry entries
\* C32: while a turn is between the registry check and the exit of its
\* handler, the entry of its session names its task id and the entry of its
\* task id names its session.
C32_RegistryConsistent ==
    \A i \in Turns :
        Active(i) =>
            /\ running_task_by_session[turn[i].session_id] = turn[i].task_id
            /\ task_to_session[turn[i].task_id] = turn[i].session_id

\* ------------------------------------------------- C33: order of events
TerminalEventTypes == {"task_completed", "task_cancelled", "task_failed"}

ToolEventTypes == {"tool_started", "tool_completed"}

IsToolEvent(e) == e.event_type \in ToolEventTypes

\* The tool events of a sequence, in order.
ToolEvents(events) == SelectSeq(events, IsToolEvent)

\* The order the events of one turn keep at every moment of the turn.
EventsInOrder(events) ==
    /\ \A k \in 1..Len(events) :
          /\ events[k].event_type \in TerminalEventTypes => k = Len(events)
          /\ events[k].event_type = "task_started" => k = 1
          /\ events[k].event_type = "model_call_completed" =>
                \E j \in 1..(k - 1) : events[j].event_type = "model_call_started"
    /\ \A k \in 1..Len(ToolEvents(events)) :
          ToolEvents(events)[k].event_type =
              (IF k % 2 = 1 THEN "tool_started" ELSE "tool_completed")

FixedProgress ==
    [e \in {"task_started", "context_ready", "model_call_started",
            "model_call_completed", "followup_started"} \cup TerminalEventTypes |->
        CASE e = "task_started" -> 5
          [] e = "context_ready" -> 25
          [] e = "model_call_started" -> 35
          [] e = "model_call_completed" -> 55
          [] e = "followup_started" -> 85
          [] OTHER -> 100]

\* C34: in one turn the progress of every event is an integer in 0..100 and
\* no event carries less than the event before it; the events other than the
\* tool events carry 5, 25, 35, 55, 85 and, the terminal one, 100; the events
\* of tool call i of n both carry 55 + floor(25*(i+1)/n), a value in 55..80
\* that is 80 for the last call.
C34_ProgressMonotone ==
    \A i \in Turns :
        LET events == turn[i].events
            tools == ToolEvents(events)
            n == Len(turn[i].tool_calls)
        IN  /\ \A k \in 1..Len(events) :
                  /\ events[k].progress \in 0..100
                  /\ k > 1 => events[k - 1].progress <= events[k].progress
                  /\ ~IsToolEvent(events[k]) =>
                        events[k].progress = FixedProgress[events[k].event_type]
            /\ \A k \in 1..Len(tools) :
                  /\ tools[k].progress = 55 + (25 * ((k + 1) \div 2)) \div n
                  /\ tools[k].progress \in 55..80
                  /\ (k + 1) \div 2 = n => tools[k].progress = 80
                  /\ k % 2 = 0 => tools[k].progress = tools[k - 1].progress

\* A completed turn ran two tool calls: progress 67 for the first, 80 for the
\* second, then 85 and 100.
C34_Witness ==
    \E i \in Turns :
        /\ turn[i].pc = "exited"
        /\ turn[i].outcome = "done"
        /\ Len(ToolEvents(turn[i].events)) = 4
        /\ ToolEvents(turn[i].events)[1].progress = 67
        /\ ToolEvents(turn[i].events)[4].progress = 80

\* ------------------------------------------- C35: the second pass alone
\* Histories of seven conversational messages, each short, over half of
\* COMPACT_TARGET_TOKENS, or over all of it.
LargeLens == {20, 120000, 240000}

LargeHistories ==
    {[k \in 1..7 |-> Msg(IF k % 2 = 1 THEN "user" ELSE "assistant", lens[k])] :
        lens \in [1..7 -> LargeLens]}

NextShrink ==
    /\ compact_in = NoCompact
    /\ \E history_messages \in LargeHistories, compact_mode \in {"auto", "force"} :
           CompactOnce("s1", history_messages,
                       BaseMessages(SystemPromptLen, history_messages, MessageLen),
                       compact_mode, TRUE)

SpecShrink == Init /\ [][NextShrink]_vars

\* The list of the first pass (lines 82-98) for the call made.
FirstPass ==
    LET conversational == Conversational(compact_in.history_messages)
    IN  LeadingSystem(compact_in.pre_compact_messages)
            \o <<CompactionBlock(ButLastN(conversational, KeepRecent))>>
            \o LastN(conversational, KeepRecent)

\* Line 105: the second pass runs.
SecondPassRan ==
    /\ Compacted
    /\ \/ ModeForce
       \/ TokenEstimate >= COMPACT_FORCE_TOKENS
       \/ estimate_messages_tokens(FirstPass) > COMPACT_TARGET_TOKENS

\* C35: the second pass returns every system message of the first pass
\* followed by a suffix of the last four recent messages; the suffix holds
\* four, three or two messages, and a message is dropped only when the list
\* that held it was over the target: on exit the estimate is at most the
\* target or exactly two recent messages remain.
C35_SecondPass ==
    SecondPassRan =>
        LET system_messages == SelectSeq(FirstPass, LAMBDA m : m.role = "system")
            recent == LastN(Conversational(compact_in.history_messages), KeepRecent)
            kept == Len(compact_out.messages) - Len(system_messages)
        IN  /\ kept \in 2..4
            /\ compact_out.messages = system_messages \o LastN(recent, kept)
            /\ compact_out.after_tokens = estimate_messages_tokens(compact_out.messages)
            /\ compact_out.after_tokens <= COMPACT_TARGET_TOKENS \/ kept = 2
            /\ kept < 4 =>
                  estimate_messages_tokens(system_messages \o LastN(recent, kept + 1))
                      > COMPACT_TARGET_TOKENS

\* The second pass dropped two messages and is still over the target with
\* the two it keeps.
C35_Witness ==
    /\ SecondPassRan
    /\ Len(SelectSeq(compact_out.messages, LAMBDA m : m.role # "system")) = 2
    /\ compact_out.after_tokens > COMPACT_TARGET_TOKENS

\* -------------------------------------- C36: the request after compaction
\* C36: the list maybe_compact_history returns holds the user message of the
\* current turn, the last entry of the list it was given, whether it
\* compacted (first pass or second) or returned the list as it was.  The
\* requests are longer than every stored message, so the entry is told from
\* the history by its length.
C36_RequestKept ==
    compact_in # NoCompact =>
        LET pre == compact_in.pre_compact_messages
        IN  \E k \in 1..Len(compact_out.messages) :
                compact_out.messages[k] = pre[Len(pre)]

\* ------------------------------------------ C37: the history a turn loads
\* A process started on a database in which every session has completed
\* LongTurns turns, seven rows each.
InitLong ==
    /\ InitProcess
    /\ chat_messages = [s \in Sessions |-> StoredMessages(LongTurns)]
    /\ event_rows = [s \in Sessions |-> StoredEventRowsOf(LongTurns, LongTurns)]
    /\ task_state =
          {[session_id |-> s, task_id |-> "t0", state |-> "done",
            current_step |-> 2, total_steps |-> 2, blocked_reason |-> None,
            last_message_id |-> MessageId(-1, "assistant")] : s \in Sessions}
    /\ session_rows = [s \in Sessions |-> SessionRow(EmptyMap)]

SpecHistory == InitLong /\ [][NextCompacting]_vars

\* The rows of role user or assistant among rows.
ConversationalRows(rows) ==
    SelectSeq(rows, LAMBDA r : r.role \in {"user", "assistant"})

\* C37: when a turn loads the history of its session (the step that builds
\* its context), the rows loaded hold the latest stored user and assistant
\* messages of the session, however many rows of any role the session has:
\* the last KeepRecent conversational rows loaded are the last KeepRecent
\* stored.
C37_LatestHistoryLoaded ==
    [][\A i \in Turns :
          (turn[i].pc = "perm_select" /\ turn'[i].pc = "ctx_ready") =>
              LET s == turn[i].session_id
                  loaded == ConversationalRows(LoadHistory(chat_messages[s], event_rows[s]))
              IN  LastN(loaded, KeepRecent) = LastN(chat_messages[s], KeepRecent)]_vars

\* ------------------------------------- C38: citations and context blocks
\* Requests that grant read on any of the files, with a short message or
\* one of 440000 characters, estimated at COMPACT_FORCE_TOKENS by itself.
ContextRequests ==
    {RequestOf(TRUE, permissions, {}, "auto", message_len) :
        permissions \in [Files -> {"read", "absent"}],
        message_len \in {MessageLen, 440000}}

\* One turn on an empty database over any index of the files; the model
\* answers without tool calls and nobody cancels.
NextContext ==
    \/ \E s \in Sessions, t \in SuppliedTaskIds \cup {None} :
          BeginRegister(1, s, t, FALSE)
    \/ \E request \in ContextRequests : LoadSession(1, request)
    \/ PermissionSelect(1)
    \/ \E indexed \in SUBSET Files : ContextReady(1, Index(FALSE, indexed))
    \/ StartModelCall(1)
    \/ ModelReturns(1, <<>>, NoPayload)
    \/ FinalCheck(1)
    \/ Complete(1)

SpecContext == Init /\ [][NextContext]_vars

\* C38: the citations a completed turn returns name the retrieval blocks of
\* the context sent to the model, one citation for each block and no other,
\* also when the guard against context overflow dropped blocks.
C38_CitationsMatchContext ==
    \A i \in Turns :
        (turn[i].pc = "exited" /\ turn[i].outcome = "done") =>
            /\ turn[i].response.citations = CitedFiles(turn[i].context_parts)
            /\ Cardinality(turn[i].response.citations) = Len(turn[i].context_parts)

\* ------------------------------------------ C31: get_session after delete
\* A process started on an empty database or on one with stored sessions.
InitEither == Init \/ InitStored

\* One caller at a time of the session endpoints; after an answer the caller
\* may ask for a session.
NextGet ==
    \/ \E u \in Updates, s \in Sessions, f \in Files, level \in {"read", "write", "none"} :
          update_session_permissions(u, s, f, level)
    \/ \E u \in Updates, s \in Sessions, permissions \in {GrantsRead, HidesOne} :
          bulk_update_permissions(u, s, permissions)
    \/ \E u \in Updates, s \in Sessions : delete_session(u, s)
    \/ \E u \in Updates : CommitSession(u)
    \/ \E u \in Updates : ReturnSession(u)
    \/ \E u \in Updates, s \in Sessions : get_session(u, s)

SpecGet == InitEither /\ [][NextGet]_vars

\* C31: when delete_session(s) has succeeded and the caller then asks
\* get_session(s), the answer is 404 and no row of s is created.
C31_DeletedStaysDeleted ==
    [][\A u \in Updates :
          (/\ perm_req[u].pc = "done"
           /\ perm_req[u].kind = "delete"
           /\ perm_req[u].status = 200
           /\ perm_req'[u].kind = "get"
           /\ perm_req'[u].session_id = perm_req[u].session_id) =>
              /\ perm_req'[u].status = 404
              /\ ~session_rows'[perm_req[u].session_id].exists]_vars

\* ----------------------------------------------- C40: turns terminate
\* A call that runs and a call whose arguments make execute raise.
LiveCalls ==
    {ToolCall("read_document", "object", "f_md"),
     ToolCall("read_document", "null", NoFile)}

\* The steps of the turn; the request grants write on both files, nothing
\* is indexed and get_embedding raises, so retrieval finds no block.
LiveStep ==
    \/ LoadSession(1, Request(TRUE, [f \in Files |-> "write"], {}, "auto"))
    \/ PermissionSelect(1)
    \/ ContextReady(1, Index(TRUE, {}))
    \/ StartModelCall(1)
    \/ \E tool_calls \in Responses(LiveCalls) : ModelReturns(1, tool_calls, NoPayload)
    \/ \E error \in ErrorTexts : ModelFails(1, error)
    \/ ToolCheck(1)
    \/ \E body \in BodyOutcomes : ToolReturns(1, body)
    \/ FollowupCheck(1)
    \/ \E ok \in BOOLEAN : FollowupReturns(1, ok)
    \/ FinalCheck(1)
    \/ Complete(1)
    \/ CancelHandler(1)
    \/ FailHandler(1)

\* One turn and cancel requests; the model answers with any sequence of the
\* two calls.
NextLive ==
    \/ \E s \in Sessions, t \in SuppliedTaskIds \cup {None}, use_tools \in BOOLEAN :
          BeginRegister(1, s, t, use_tools)
    \/ LiveStep
    \/ CancelStep

\* The event loop runs a handler that can continue, and every call the turn
\* awaits (completion, tool, database) returns or raises: the steps of the
\* turn are weakly fair.  Cancel requests come or do not.
SpecLive == Init /\ [][NextLive]_vars /\ WF_vars(LiveStep)

TerminalOutcomes == {"done", "cancelled", "failed"}

\* The turn has left its handler with a terminal outcome and the finally
\* block has removed its registry entries and its cancel flag.
Terminated(i) ==
    /\ turn[i].pc = "exited"
    /\ turn[i].outcome \in TerminalOutcomes
    /\ running_task_by_session[turn[i].session_id] = None
    /\ task_to_session[turn[i].task_id] = None

====
